---- MODULE Spec2Model ----
(***************************************************************************)
(* Model of the transferbot repository:                                    *)
(*   - AtlanticAPIClient (api-client): one client call, its axios response *)
(*     interceptor, the retry policy and the result normalisation.         *)
(*   - BotManager (index.js): the wizard sessions (userStates), the event  *)
(*     handlers with their suspension points, the confirmation callbacks.  *)
(*   - DatabaseManager (database-manager.js): the journal records and the  *)
(*     counters the handlers change.                                       *)
(* SpecClient explores one client call; Spec explores the bot; SpecWizard  *)
(* explores the wizard sessions with the clock and the session sweep;      *)
(* SpecAccept explores a confirmation accepted more than once; SpecJournal *)
(* explores the DatabaseManager's methods called directly; SpecPersist     *)
(* explores save() and createBackup() with the files they write;           *)
(* SpecCommands explores the command handlers that only answer;           *)
(* SpecStartup explores BotManager.initialize(); SpecLifecycle explores   *)
(* start(), stop() and restartBot() after polling errors; SpecStandalone  *)
(* explores the standalone bot at the head of index.js: its reply-chain    *)
(* /create_transfer and its callback_query listener.                       *)
(***************************************************************************)
EXTENDS Integers, Sequences, FiniteSets, Bags, TLC

VARIABLES
    \* ---- AtlanticAPIClient: one call ----
    maxRetries,     \* this.maxRetries
    cop,            \* the operation called
    cvalid,         \* createTransfer: transferData carries the required fields
    cpc,            \* position of the call
    retryCount,     \* config.retryCount of the request in flight
    requests,       \* number of underlying HTTP requests made
    trace,          \* the provider outcomes received so far
    delays,         \* the back-off delays waited so far
    cresult,        \* what the operation handed to its caller
    \* ---- BotManager / DatabaseManager ----
    userStates,     \* this.userStates: conversation key -> session
    tasks,          \* the suspended handler invocations (a bag)
    now,            \* Date.now()
    lastEvent,      \* history: "guest" right after an event of a non-owner was
                    \* handled, "sweep" right after cleanupUserStates ran,
                    \* "cancel" right after the owner's cancel_action was handled
    reply,          \* history: "denial" right after an event whose handler sent
                    \* the owner-only message, "help" right after one whose
                    \* handler sent the help text, "none" otherwise
    prompts,        \* confirmation prompts delivered to the chat
    providerCalls,  \* provider operations the bot has started (history)
    transactions,   \* db.data.transactions
    deposits,       \* db.data.deposits
    users,          \* db.data.users (ids)
    system,         \* db.data.system counters
    nextId,         \* source of fresh record ids (uuidv4)
    lock,           \* db.lock
    saveQueue,      \* db.saveQueue (number of queued resolvers)
    \* ---- DatabaseManager called directly ----
    jlast,          \* history: the last call of a journal method, its number,
                    \* its argument and the value it returned (for a status
                    \* update also the status the record had before)
    waiting,        \* the save() calls whose resolvers are in db.saveQueue, oldest first
    writers,        \* the save() calls between taking the lock and the finally block
    released,       \* history: the queued save() calls resolved so far, in order
    \* ---- the files of the DatabaseManager ----
    file,           \* the content of database.json
    writing,        \* the content handed to the writeJson(dbPath) in progress
    backups,        \* the names of the snapshots in the backup directory
    backupOps,      \* the createBackup() invocations in progress
    saved,          \* history: what the save() calls that took the lock returned
    \* ---- BotManager.initialize ----
    boot,           \* the environment and the progress of initialize()
    \* ---- BotManager.start / stop / restartBot ----
    life            \* isRunning, the polling, and the start() and restartBot()
                    \* invocations in progress

clientVars == <<maxRetries, cop, cvalid, cpc, retryCount, requests, trace, delays, cresult>>
dbVars == <<jlast, waiting, writers, released, file, writing, backups, backupOps, saved>>
botVars == <<userStates, tasks, now, lastEvent, reply, prompts,
             providerCalls, transactions, deposits, users, system, nextId, lock, saveQueue,
             jlast, waiting, writers, released, file, writing, backups, backupOps, saved, boot, life>>
vars == <<maxRetries, cop, cvalid, cpc, retryCount, requests, trace, delays, cresult,
          userStates, tasks, now, lastEvent, reply, prompts,
          providerCalls, transactions, deposits, users, system, nextId, lock, saveQueue,
          jlast, waiting, writers, released, file, writing, backups, backupOps, saved, boot, life>>

(***************************************************************************)
(* ===================== AtlanticAPIClient ================================ *)
(***************************************************************************)

\* Largest MAX_RETRY_ATTEMPTS value explored.
MaxRetryEnv == 4

\* parseInt(process.env.MAX_RETRY_ATTEMPTS) || 3
DefaultMaxRetries == 3

\* 1000 * Math.pow(2, retryCount), capped at 10000
BackoffBase == 1000
BackoffCap == 10000

\* MAX_RETRY_ATTEMPTS as the environment gives it: 0 stands for unset or
\* unparsable (NaN) as well as for "0", which are all falsy.
RetryEnvValues == 0..MaxRetryEnv

maxRetriesOf(env) == IF env = 0 THEN DefaultMaxRetries ELSE env

ClientOps == {"getBankList", "checkAccount", "createTransfer", "checkTransferStatus", "testConnection"}

\* The provider's message field: present or absent.
ProviderMessages == {"provider message", ""}

\* HTTP 2xx answers: a body with a status flag and a message, or no body.
OkOutcomes ==
    [t : {"ok"}, status : {200}, code : {""}, config : {TRUE}, body : {"json"},
     flag : BOOLEAN, message : ProviderMessages]
    \cup [t : {"ok"}, status : {200}, code : {""}, config : {TRUE}, body : {"none"},
          flag : {FALSE}, message : {""}]

\* HTTP error answers (error.response set).
HttpErrorOutcomes ==
    [t : {"err"}, status : {400, 401, 404, 429, 500, 503}, code : {"ERR_BAD_RESPONSE"},
     config : {TRUE}, body : {"json"}, flag : {FALSE}, message : ProviderMessages]

\* Failures without a response (error.request set, error.response not).
NetworkErrorOutcomes ==
    [t : {"err"}, status : {0}, code : {"ECONNABORTED", "ECONNRESET", "ETIMEDOUT", "ENOTFOUND"},
     config : {TRUE}, body : {"none"}, flag : {FALSE}, message : {""}]

\* Failures raised before a request exists (error.config undefined).
SetupErrorOutcomes ==
    [t : {"err"}, status : {0}, code : {"ECONNRESET", ""},
     config : {FALSE}, body : {"none"}, flag : {FALSE}, message : {""}]

Outcomes == OkOutcomes \cup HttpErrorOutcomes \cup NetworkErrorOutcomes \cup SetupErrorOutcomes

NoResult == [kind |-> "none"]

\* shouldRetry(error), with a retry on every 4xx as well
shouldRetry_any4xx(error) ==
    IF ~error.config THEN FALSE
    ELSE \/ error.code = "ECONNABORTED"
         \/ error.code = "ECONNRESET"
         \/ error.code = "ETIMEDOUT"
         \/ error.status >= 400

\* shouldRetry(error)
shouldRetry(error) ==
    IF ~error.config THEN FALSE
    ELSE \/ error.code = "ECONNABORTED"
         \/ error.code = "ECONNRESET"
         \/ error.code = "ETIMEDOUT"
         \/ error.status = 429
         \/ error.status >= 500

\* the interceptor's condition, comparing with <= instead of <
mayRetry_offByOne(error, count, max) == shouldRetry(error) /\ count <= max

\* the error interceptor's condition for retrying
mayRetry(error, count, max) == shouldRetry(error) /\ count < max

RECURSIVE Pow2(_)
Pow2(n) == IF n = 0 THEN 1 ELSE 2 * Pow2(n - 1)

Min(a, b) == IF a < b THEN a ELSE b

\* a back-off that counts the retries from zero
retryDelay_fromZero(count) == Min(BackoffBase * Pow2(count - 1), BackoffCap)

\* Math.min(1000 * Math.pow(2, retryCount), 10000)
retryDelay(count) == Min(BackoffBase * Pow2(count), BackoffCap)

\* a || b on strings
Default(m, d) == IF m = "" THEN d ELSE m

\* getErrorMessage(error)
getErrorMessage(error) ==
    IF error.status # 0 THEN
        IF error.status = 401 THEN "API Key tidak valid"
        ELSE IF error.status = 403 THEN "Akses ditolak"
        ELSE IF error.status = 404 THEN "Endpoint tidak ditemukan"
        ELSE IF error.status = 429 THEN "Terlalu banyak permintaan, coba lagi nanti"
        ELSE IF error.status >= 500 THEN "Server error, coba lagi nanti"
        ELSE IF error.message # "" THEN error.message
        ELSE "HTTP Error"
    ELSE IF error.config THEN
        IF error.code = "ECONNABORTED" THEN "Timeout, koneksi terputus"
        ELSE IF error.code = "ECONNRESET" THEN "Koneksi direset oleh server"
        ELSE IF error.code = "ETIMEDOUT" THEN "Koneksi timeout"
        ELSE "Tidak ada response dari server, cek koneksi internet"
    ELSE Default(error.message, "Unknown error occurred")

Returned(success, data, message) ==
    [kind |-> "returned", success |-> success, data |-> data, message |-> message]

Thrown(message) == [kind |-> "thrown", success |-> FALSE, data |-> "null", message |-> message]

\* a try block that reports every failure with its own text
flagResult_ownText(response, emptyData, okDefault, failDefault) ==
    IF response.body = "json" /\ response.flag
    THEN Returned(TRUE, "data", Default(response.message, okDefault))
    ELSE Returned(FALSE, emptyData, failDefault)

\* the body of the try block of an operation, applied to an HTTP 2xx response
\* (the ops that test `response.data && response.data.status`)
flagResult(response, emptyData, okDefault, failDefault) ==
    IF response.body = "json" /\ response.flag
    THEN Returned(TRUE, "data", Default(response.message, okDefault))
    ELSE Returned(FALSE, emptyData, Default(response.message, failDefault))

\* checkTransferStatus: tests `response.data` only
statusResult(response) ==
    IF response.body = "json"
    THEN Returned(TRUE, "data", Default(response.message, "Status retrieved"))
    ELSE Returned(FALSE, "null", "No data returned")

\* what an operation returns for an HTTP 2xx response
onResponse(op, response) ==
    CASE op = "getBankList" -> flagResult(response, "[]", "Success", "Failed to get bank list")
      [] op = "checkAccount" -> flagResult(response, "null", "Success", "Account check failed")
      [] op = "createTransfer" ->
            flagResult(response, "null", "Transfer created successfully", "Transfer creation failed")
      [] op = "checkTransferStatus" -> statusResult(response)
      [] OTHER -> flagResult(response, "[]", "Success", "Failed to get bank list")

\* an operation whose catch block rethrows
onError_rethrow(op, error) ==
    IF op = "checkTransferStatus" THEN Thrown(getErrorMessage(error))
    ELSE Returned(FALSE, IF op \in {"getBankList", "testConnection"} THEN "[]" ELSE "null",
                  getErrorMessage(error))

\* the catch block of an operation
onError(op, error) ==
    Returned(FALSE, IF op \in {"getBankList", "testConnection"} THEN "[]" ELSE "null",
             getErrorMessage(error))

\* testConnection(): maps getBankList()'s result to {connected, message, data}
testConnection(result) ==
    [kind |-> result.kind, success |-> result.success, data |-> result.data,
     message |-> IF result.success THEN "Connected successfully" ELSE result.message]

finish(op, result) == IF op = "testConnection" THEN testConnection(result) ELSE result

BotIdle ==
    /\ userStates = <<>> /\ tasks = <<>> /\ now = 0 /\ lastEvent = "none" /\ reply = "none"
    /\ prompts = {} /\ providerCalls = <<>>
    /\ transactions = <<>> /\ deposits = <<>> /\ users = {} /\ system = <<>> /\ nextId = 0
    /\ lock = FALSE /\ saveQueue = 0
    /\ jlast = <<>> /\ waiting = <<>> /\ writers = {} /\ released = <<>>
    /\ file = <<>> /\ writing = <<>> /\ backups = {} /\ backupOps = {} /\ saved = <<>>

\* constructor, and the arguments of the call
ClientInit ==
    /\ maxRetries \in {maxRetriesOf(e) : e \in RetryEnvValues}
    /\ cop \in ClientOps
    /\ cvalid \in BOOLEAN
    /\ (cop # "createTransfer" => cvalid)
    /\ cpc = "start"
    /\ retryCount = 0
    /\ requests = 0
    /\ trace = <<>>
    /\ delays = <<>>
    /\ cresult = NoResult
    /\ BotIdle
    /\ boot = <<>>
    /\ life = <<>>

\* the operation is entered: createTransfer validates its input, every
\* operation then posts its request through the axios instance
callOperation ==
    /\ cpc = "start"
    /\ IF cop = "createTransfer" /\ ~cvalid
       THEN /\ cpc' = "done"
            /\ cresult' = onError(cop, [t |-> "err", status |-> 0, code |-> "", config |-> FALSE,
                                        body |-> "none", flag |-> FALSE,
                                        message |-> "Missing required transfer data"])
            /\ UNCHANGED requests
       ELSE /\ cpc' = "inflight"
            /\ requests' = requests + 1
            /\ UNCHANGED cresult
    /\ UNCHANGED <<maxRetries, cop, cvalid, retryCount, trace, delays>>
    /\ UNCHANGED botVars

\* the response interceptor's success handler and the rest of the try block
responseOk(o) ==
    /\ cpc = "inflight"
    /\ o.t = "ok"
    /\ trace' = Append(trace, o)
    /\ cpc' = "done"
    /\ cresult' = finish(cop, onResponse(cop, o))
    /\ UNCHANGED <<maxRetries, cop, cvalid, retryCount, requests, delays>>
    /\ UNCHANGED botVars

\* the response interceptor's error handler: retryRequest up to its delay, or
\* the rejection that the operation's catch block turns into a result
responseError(o) ==
    /\ cpc = "inflight"
    /\ o.t = "err"
    /\ trace' = Append(trace, o)
    /\ IF mayRetry(o, retryCount, maxRetries)
       THEN /\ retryCount' = retryCount + 1
            /\ delays' = Append(delays, retryDelay(retryCount + 1))
            /\ cpc' = "backoff"
            /\ UNCHANGED cresult
       ELSE /\ cpc' = "done"
            /\ cresult' = finish(cop, onError(cop, o))
            /\ UNCHANGED <<retryCount, delays>>
    /\ UNCHANGED <<maxRetries, cop, cvalid, requests>>
    /\ UNCHANGED botVars

\* retryRequest after its delay: the request is made again
retryRequest ==
    /\ cpc = "backoff"
    /\ cpc' = "inflight"
    /\ requests' = requests + 1
    /\ UNCHANGED <<maxRetries, cop, cvalid, retryCount, trace, delays, cresult>>
    /\ UNCHANGED botVars

ClientNext ==
    \/ callOperation
    \/ \E o \in Outcomes : responseOk(o)
    \/ \E o \in Outcomes : responseError(o)
    \/ retryRequest

SpecClient == ClientInit /\ [][ClientNext]_vars

\* every request is eventually answered and every delay eventually elapses
SpecClientFair == ClientInit /\ [][ClientNext]_vars /\ WF_vars(ClientNext)

(***************************************************************************)
(* Claims about the client                                                 *)
(***************************************************************************)

Last(s) == s[Len(s)]

Is503(o) == o.t = "err" /\ o.status = 503 /\ o.config

\* the failures the retry policy names: connection reset, connection
\* timeout, aborted request, HTTP 429, HTTP >= 500, of a request that exists
RetryableFailure(o) ==
    /\ o.t = "err"
    /\ o.config
    /\ \/ o.code \in {"ECONNRESET", "ETIMEDOUT", "ECONNABORTED"}
       \/ o.status = 429
       \/ o.status >= 500

ProviderFlagTrue(o) == o.t = "ok" /\ o.body = "json" /\ o.flag

\* C3: a call answered by k 503s and then a success made exactly k+1 requests,
\* with k <= maxRetries, and returned success; a call that ended on a 503 made
\* exactly maxRetries + 1 requests (4 when maxRetries = 3) and returned a
\* normalized failure.
C3_RetryCounts ==
    (cpc = "done" /\ trace # <<>>) =>
        /\ ( /\ ProviderFlagTrue(Last(trace))
             /\ \A i \in 1..(Len(trace) - 1) : Is503(trace[i]) )
           => /\ Len(trace) - 1 <= maxRetries
              /\ requests = (Len(trace) - 1) + 1
              /\ cresult.kind = "returned" /\ cresult.success
        /\ Is503(Last(trace))
           => /\ requests = maxRetries + 1
              /\ (maxRetries = 3 => requests = 4)
              /\ \A i \in 1..Len(trace) : RetryableFailure(trace[i])
              /\ cresult.kind = "returned" /\ ~cresult.success

\* two 503s, then a 200 with a true status flag: three requests, success
C3_Witness ==
    /\ cpc = "done" /\ cop = "createTransfer" /\ Len(trace) = 3
    /\ Is503(trace[1]) /\ Is503(trace[2]) /\ ProviderFlagTrue(trace[3])
    /\ requests = 3 /\ cresult.success

\* C4: every client operation finishes, and what it hands to its caller is a
\* returned result, never a thrown error.
C4_AlwaysReturns ==
    /\ <>(cpc = "done")
    /\ [](cpc = "done" => cresult.kind = "returned")

\* retries exhausted on a checkTransferStatus call, and a result came back
C4_Witness ==
    /\ cpc = "done" /\ cop = "checkTransferStatus"
    /\ requests = maxRetries + 1 /\ RetryableFailure(Last(trace))
    /\ cresult.kind = "returned" /\ ~cresult.success

\* C5: for the four operations, success is true exactly when the provider's
\* response body carried a true status flag.
C5_SuccessIsStatusFlag ==
    (cpc = "done" /\ cop # "testConnection" /\ cresult.kind = "returned") =>
        (cresult.success <=> (trace # <<>> /\ ProviderFlagTrue(Last(trace))))

\* C6: a failure is followed by another request exactly when it is of the
\* retryable kind (and the retry budget is not used up); a call whose failure
\* is of any other kind ends on it, and made one request if it was the first.
C6_RetryExactlyRetryable ==
    /\ \A i \in 1..(Len(trace) - 1) : RetryableFailure(trace[i])
    /\ (cpc = "done" /\ trace # <<>> /\ RetryableFailure(Last(trace)))
          => Len(trace) = maxRetries + 1
    /\ (cpc # "done" /\ trace # <<>>) => cpc \in {"backoff", "inflight"}
    /\ (trace # <<>> /\ Last(trace).t = "err" /\ ~RetryableFailure(Last(trace)))
          => /\ cpc = "done"
             /\ cresult.kind = "returned" /\ ~cresult.success
             /\ (Len(trace) = 1 => requests = 1)

\* a 400 answer ended a call after one request, with a failure result
C6_Witness ==
    /\ cpc = "done" /\ Len(trace) = 1 /\ trace[1].status = 400 /\ requests = 1
    /\ ~cresult.success

(***************************************************************************)
(* ===================== BotManager ======================================= *)
(***************************************************************************)

\* handler invocations that can be suspended at the same time
MaxTasks == 2
\* confirmation prompts delivered or being delivered
MaxPrompts == 1
\* provider operations the bot starts
MaxCalls == 1
\* journal records (transactions and deposits together)
MaxRecords == 1
\* saves that may wait in db.saveQueue
MaxQueue == 1
\* the clock takes the values j * SessionTimeout, j <= MaxJumps
MaxJumps == 2

\* cleanupUserStates: 30 * 60 * 1000
SessionTimeout == 1800000
\* handleCreateTransferWizard: amount < 1000
MinTransfer == 1000
\* getDefaultStructure: settings.min_deposit, settings.max_deposit
min_deposit == 1000
max_deposit == 10000000
\* database.settings.max_transfer
max_transfer == 10000000
\* getDefaultStructure: settings.fee_percentage (0.1), in percent
fee_percentage == 10

OwnerId == "owner"
Users == {"owner", "guest"}
Chats == {1}
Keys == Users \X Chats

\* `${userId}:${chatId}`
KeyOf(userId, chatId) == <<userId, chatId>>

(***************************************************************************)
(* Message texts are sequences of characters.                              *)
(***************************************************************************)
DigitChars == <<"0", "1", "2", "3", "4", "5", "6", "7", "8", "9">>

IsDigit(ch) == \E i \in 1..10 : DigitChars[i] = ch

DigitValue(ch) == (CHOOSE i \in 1..10 : DigitChars[i] = ch) - 1

NaN == -1

\* text.replace(/[^0-9]/g, '')
stripNonDigits(text) == SelectSeq(text, IsDigit)

RECURSIVE parseDigits(_, _)
parseDigits(digits, acc) ==
    IF digits = <<>> THEN acc
    ELSE parseDigits(Tail(digits), acc * 10 + DigitValue(Head(digits)))

\* parseInt(s) of a string: the leading digits, NaN when there are none
RECURSIVE leadingDigits(_)
leadingDigits(text) ==
    IF text = <<>> \/ ~IsDigit(Head(text)) THEN <<>>
    ELSE <<Head(text)>> \o leadingDigits(Tail(text))

parseInt(text) ==
    IF leadingDigits(text) = <<>> THEN NaN ELSE parseDigits(leadingDigits(text), 0)

\* parseInt(text.replace(/[^0-9]/g, ''))
parseAmount(text) == parseInt(stripNonDigits(text))

toLowerChar(ch) ==
    CASE ch = "O" -> "o" [] ch = "V" -> "v" [] ch = "R" -> "r"
      [] ch = "T" -> "t" [] ch = "D" -> "d" [] OTHER -> ch

\* text.toLowerCase()
toLowerCase(text) == [i \in DOMAIN text |-> toLowerChar(text[i])]

RECURSIVE trimStart(_)
trimStart(text) ==
    IF text # <<>> /\ Head(text) = " " THEN trimStart(Tail(text)) ELSE text

RECURSIVE trimEnd(_)
trimEnd(text) ==
    IF text # <<>> /\ text[Len(text)] = " " THEN trimEnd(SubSeq(text, 1, Len(text) - 1)) ELSE text

\* text.trim()
trim(text) == trimEnd(trimStart(text))

\* the menu buttons' labels (the first character stands for the emoji)
ButtonTransfer == <<"[money-wings]", " ", "T", "r", "a", "n", "s", "f", "e", "r">>
ButtonDeposit == <<"[money-bag]", " ", "D", "e", "p", "o", "s", "i", "t">>

\* the replies explored for the text steps, by the field the step stores
StepText == [
    bank_code      |-> <<" ", "O", "V", "O">>,
    account_number |-> <<"6", "2", " ">>,
    kode_bank      |-> <<" ", "O", "V", "O">>,
    nomor_akun     |-> <<"6", "2", " ">>,
    nama_pemilik   |-> <<"A", "r", "f", "i">> ]

\* the replies explored for the amount steps: the smallest accepted amount
\* written with a currency prefix and a separator, the amount just below it,
\* and the amount just above max_deposit
AmountTexts == {
    <<"R", "p", "1", ".", "0", "0", "0">>,
    <<"9", "9", "9">>,
    <<"1", "0", "0", "0", "0", "0", "0", "1">> }

\* the free-text messages explored
Texts == AmountTexts \cup {StepText[f] : f \in DOMAIN StepText} \cup {ButtonTransfer, ButtonDeposit}

(***************************************************************************)
(* Wizard sessions                                                         *)
(***************************************************************************)
NoSession == [wizard |-> "none"]

EmptyData == [f \in {} |-> 0]

\* obj.field = value
SetField(data, field, value) == [f \in DOMAIN data \cup {field} |-> IF f = field THEN value ELSE data[f]]

\* the session object the trigger handlers store: { wizard, step: 1, data: {} }
\* (born is history: the time of creation, which the object does not hold)
NewSession(kind, t) == [wizard |-> kind, step |-> 1, data |-> EmptyData, born |-> t]

\* a trigger that leaves an existing session alone
StartWizard_keepExisting(states, key, kind, t) ==
    IF states[key] # NoSession THEN states ELSE [states EXCEPT ![key] = NewSession(kind, t)]

\* this.userStates.set(`${userId}:${chatId}`, { wizard: kind, step: 1, data: {} })
StartWizard(states, key, kind, t) == [states EXCEPT ![key] = NewSession(kind, t)]

\* isOwner without the comparison
isOwner_everyone(userId) == TRUE

\* isOwner(userId, chatId): userId.toString() === ownerId.toString()
isOwner(userId) == userId = OwnerId

\* `TRF-${Date.now()}`, `DEP-${Date.now()}`
RefId(prefix, millis) == [prefix |-> prefix, digits |-> millis]

\* Math.round(amount * fee_percentage)
Fee(amount) == (amount * fee_percentage + 50) \div 100

\* a handler invocation suspended at an await: its position, the sender and
\* chat of its event, the button its message text names, its local data
Task(pc, userId, chatId, button, data) ==
    [pc |-> pc, user |-> userId, chat |-> chatId, button |-> button, data |-> data]

ClientIdle ==
    /\ maxRetries = DefaultMaxRetries /\ cop = "getBankList" /\ cvalid = TRUE /\ cpc = "start"
    /\ retryCount = 0 /\ requests = 0 /\ trace = <<>> /\ delays = <<>> /\ cresult = NoResult

\* no journal method has been called directly, no save() is under way
NoCall == [n |-> 0, op |-> "none"]

\* createBackup keeps the newest 7 snapshots
KeepBackups == 7

\* a snapshot is named by the time of its creation; the directory starts
\* with the snapshots of KeepBackups earlier saves
OlderSnapshots == {0 - i : i \in 1..KeepBackups}

\* what writeJson(path, this.data) serialises
Content(us, txs, deps, sys) ==
    [users |-> us, transactions |-> txs, deposits |-> deps, system |-> sys]

\* no writeJson(dbPath) is in progress
NoContent == [users |-> "none"]

DbIdle ==
    /\ jlast = NoCall /\ waiting = <<>> /\ writers = {} /\ released = <<>>
    /\ file = Content(users, transactions, deposits, system)
    /\ writing = NoContent
    /\ backups = OlderSnapshots
    /\ backupOps = {}
    /\ saved = <<>>

\* initialize() has returned true
Started == [pc |-> "done", ret |-> "true"]

\* the restartBot() invocations explored
MaxRestarts == 3

\* start() of the entry point has returned: the bot polls, no restart is scheduled
Polling == [isRunning |-> TRUE, polling |-> TRUE, starting |-> 0,
            pc |-> [r \in 0..MaxRestarts |-> IF r = 0 THEN "done" ELSE "idle"]]

\* new BotManager(), initialize() done: database loaded, handlers registered
Init ==
    /\ ClientIdle
    /\ userStates = [k \in Keys |-> NoSession]
    /\ tasks = EmptyBag
    /\ now = 0
    /\ lastEvent = "none"
    /\ reply = "none"
    /\ prompts = {}
    /\ providerCalls = <<>>
    /\ transactions = <<>>
    /\ deposits = <<>>
    /\ users = {}
    /\ system = [successful_transfers |-> 0, successful_deposits |-> 0, total_volume |-> 0]
    /\ nextId = 1
    /\ lock = FALSE
    /\ saveQueue = 0
    /\ DbIdle
    /\ boot = Started
    /\ life = Polling

journalVars == <<transactions, deposits, users, system, nextId, lock, saveQueue>>

\* isOwner(userId, chatId): what it sends to a sender who is not the owner
\* ('Bot ini hanya untuk owner!')
replyOf(userId) == IF isOwner(userId) THEN "none" ELSE "denial"

\* what lastEvent records of an inbound event: that its sender was not the owner
eventOf(userId) == IF userId = OwnerId THEN "none" ELSE "guest"

\* DatabaseManager.save(), up to its first suspension: queue behind a save in
\* progress, or take the lock
save ==
    /\ lock' = TRUE
    /\ saveQueue' = IF lock THEN saveQueue + 1 ELSE saveQueue

\* save() can run or queue without passing the bound on the queue
SaveFits == lock => saveQueue < MaxQueue

\* DatabaseManager.save(), from the end of its backup and file write: the
\* finally block releases the lock and resolves the first queued caller
saveFinished ==
    /\ lock
    /\ lock' = FALSE
    /\ saveQueue' = IF saveQueue > 0 THEN saveQueue - 1 ELSE saveQueue
    /\ lastEvent' = "none"
    /\ reply' = "none"
    /\ UNCHANGED <<userStates, tasks, now, prompts,
                   providerCalls, transactions, deposits, users, system, nextId>>
    /\ UNCHANGED <<clientVars, dbVars, boot, life>>

\* Date.now() moves on by the length of the session timeout
Tick ==
    /\ now + SessionTimeout <= MaxJumps * SessionTimeout
    /\ now' = now + SessionTimeout
    /\ lastEvent' = "none"
    /\ reply' = "none"
    /\ UNCHANGED <<userStates, tasks, prompts, providerCalls>>
    /\ UNCHANGED journalVars
    /\ UNCHANGED <<clientVars, dbVars, boot, life>>

\* the sessions cleanupUserStates removes at time t:
\* state.timestamp && (now - state.timestamp) > timeout
expiredKeys(states, t) ==
    {k \in Keys : /\ states[k] # NoSession
                  /\ "timestamp" \in DOMAIN states[k]
                  /\ states[k].timestamp # 0
                  /\ (t - states[k].timestamp) > SessionTimeout}

\* cleanupUserStates()
cleanupUserStates ==
    /\ userStates' = [k \in Keys |-> IF k \in expiredKeys(userStates, now) THEN NoSession
                                     ELSE userStates[k]]
    /\ lastEvent' = "sweep"
    /\ reply' = "none"
    /\ UNCHANGED <<tasks, now, prompts, providerCalls>>
    /\ UNCHANGED journalVars
    /\ UNCHANGED <<clientVars, dbVars, boot, life>>

\* the wizard a trigger command starts
TriggerKind == [checkaccount |-> "check_account", createtransfer |-> "create_transfer",
                deposit |-> "create_deposit"]

\* handleCheckAccount / handleCreateTransfer / handleDeposit: the owner check,
\* the new session, the first prompt (whose delivery changes nothing)
handleTrigger(cmd, userId, chatId) ==
    /\ cmd \in DOMAIN TriggerKind
    /\ userStates' = IF isOwner(userId)
                     THEN StartWizard(userStates, KeyOf(userId, chatId), TriggerKind[cmd], now)
                     ELSE userStates
    /\ lastEvent' = eventOf(userId)
    /\ reply' = replyOf(userId)
    /\ UNCHANGED <<tasks, now, prompts, providerCalls>>
    /\ UNCHANGED journalVars
    /\ UNCHANGED <<clientVars, dbVars, boot, life>>

(***************************************************************************)
(* Confirmation payloads: `confirm_transfer:${JSON.stringify(state.data)}`  *)
(***************************************************************************)
\* the order in which the wizards insert their fields
FieldOrder == <<"bank_code", "account_number", "kode_bank", "nomor_akun", "nama_pemilik",
                "nominal", "ref_id">>

\* `TRF-${millis}` as JSON shows it: a string made of the prefix, "-", the digits
refString(ref) == <<ref.prefix, "-", ref.digits>>

\* a reading of the reference id that loses its prefix
refOfString_otherPrefix(str) == [prefix |-> "REF", digits |-> str[3]]

\* the reference id read back from its string
refOfString(str) == [prefix |-> str[1], digits |-> str[3]]

\* JSON.stringify(data): the members in insertion order, the number as a
\* number, the reference id and the texts as strings
stringify(data) ==
    LET present == SelectSeq(FieldOrder, LAMBDA f : f \in DOMAIN data)
    IN [i \in 1..Len(present) |->
          <<present[i], IF present[i] = "ref_id" THEN refString(data[present[i]])
                        ELSE data[present[i]]>>]

\* JSON.parse(str): the object with the members of the text
parse(json) ==
    [f \in {json[i][1] : i \in 1..Len(json)} |->
        LET i == CHOOSE j \in 1..Len(json) : json[j][1] = f
        IN IF f = "ref_id" THEN refOfString(json[i][2]) ELSE json[i][2]]

confirmPrefix(kind) == IF kind = "create_transfer" THEN "confirm_transfer:" ELSE "confirm_deposit:"

\* the accept button's callback_data of a confirmation prompt
callbackData(kind, data) == [prefix |-> confirmPrefix(kind), json |-> stringify(data)]

CancelAction == [prefix |-> "cancel_action", json |-> <<>>]

\* the wizard a menu button starts ("none" for a text that is no such label)
buttonKind(text) ==
    IF text = ButtonTransfer THEN "create_transfer"
    ELSE IF text = ButtonDeposit THEN "create_deposit"
    ELSE "none"

\* handleKeyboardButtons(msg): the owner check, then the handler of the
\* button the text names
handleKeyboardButtons(states, userId, chatId, button, t) ==
    IF isOwner(userId) /\ button # "none"
    THEN StartWizard(states, KeyOf(userId, chatId), button, t)
    ELSE states

\* handleCreateTransferWizard step 4: !(isNaN(amount) || amount < 1000)
transferAmountOk(amount) == ~(amount = NaN \/ amount < MinTransfer)

\* handleCreateDepositWizard step 1: both checks passed
depositAmountOk(amount) == ~(amount = NaN \/ amount < min_deposit) /\ ~(amount > max_deposit)

\* a step that moves on without storing its field
advance_skipField(session, field, value) ==
    [session EXCEPT !.step = session.step + 1]

\* a step that stores its field and leaves the step number for later
advance_keepStep(session, field, value) ==
    [session EXCEPT !.data = SetField(session.data, field, value)]

\* state.data[field] = value; state.step = step + 1
advance(session, field, value) ==
    [session EXCEPT !.data = SetField(session.data, field, value), !.step = session.step + 1]

\* the field a step of a wizard stores
stepField(kind, step) ==
    CASE kind = "check_account" /\ step = 1 -> "bank_code"
      [] kind = "check_account" /\ step = 2 -> "account_number"
      [] kind = "create_transfer" /\ step = 1 -> "kode_bank"
      [] kind = "create_transfer" /\ step = 2 -> "nomor_akun"
      [] kind = "create_transfer" /\ step = 3 -> "nama_pemilik"
      [] OTHER -> "nominal"

\* the value a step stores: text.toLowerCase().trim(), text.trim(), or the amount
stepValue(kind, step, text) ==
    CASE step = 1 /\ kind \in {"check_account", "create_transfer"} -> trim(toLowerCase(text))
      [] kind = "create_deposit" \/ (kind = "create_transfer" /\ step = 4) -> parseAmount(text)
      [] OTHER -> trim(text)

\* what the synchronous part of a wizard step decides
\*   "prompt"   the field is stored, the step advanced, the next prompt is sent
\*   "reject"   the amount is refused, the validation message is sent
\*   "confirm"  the last field is stored, the confirmation prompt is sent
\*   "check"    check_account's last field is stored, the account check starts
stepOutcome(session, text) ==
    CASE session.wizard = "check_account" /\ session.step = 1 -> "prompt"
      [] session.wizard = "check_account" /\ session.step = 2 -> "check"
      [] session.wizard = "create_transfer" /\ session.step \in 1..3 -> "prompt"
      [] session.wizard = "create_transfer" /\ session.step = 4 ->
            IF transferAmountOk(parseAmount(text)) THEN "confirm" ELSE "reject"
      [] session.wizard = "create_deposit" /\ session.step = 1 ->
            IF depositAmountOk(parseAmount(text)) THEN "confirm" ELSE "reject"
      [] OTHER -> "none"

refPrefix(kind) == IF kind = "create_transfer" THEN "TRF" ELSE "DEP"

\* the field map a step leaves in the session object
dataAfter(session, text, t) ==
    LET stored == SetField(session.data, stepField(session.wizard, session.step),
                           stepValue(session.wizard, session.step, text))
    IN IF stepOutcome(session, text) = "confirm"
       THEN SetField(stored, "ref_id", RefId(refPrefix(session.wizard), t))
       ELSE stored

\* the number of suspended handlers at one of the positions pcs
PcCount(pcs) ==
    LET at == {t \in BagToSet(tasks) : t.pc \in pcs}
    IN BagCardinality([t \in at |-> tasks[t]])

\* handlers that will start a provider operation when they resume
CallsPending == PcCount({"wiz_check_pre", "ct_pre", "bl_pre"})

\* handlers that may append a journal record when they resume
RecordsPending == PcCount({"ct_pre", "ct_call", "cd_pre"})

\* handlers that will deliver a confirmation prompt when they resume
PromptsPending == PcCount({"wiz_confirm"})

\* a handler reaches an await
Suspend(task) == tasks (+) SetToBag({task})

\* a handler returns
Finish(task) == tasks (-) SetToBag({task})

\* a handler resumes and reaches its next await
Resume(task, next) == (tasks (-) SetToBag({task})) (+) SetToBag({next})

\* the last step of a wizard
lastStep(kind) ==
    CASE kind = "check_account" -> 2
      [] kind = "create_transfer" -> 4
      [] OTHER -> 1

\* the texts explored as the reply to a wizard's prompt: for a text step the
\* text of the kind it asks for, for an amount step every amount text, and
\* for the first and the last step of a wizard a menu label as well; without
\* a session every text
Replies(session) ==
    IF session = NoSession THEN Texts
    ELSE (IF stepField(session.wizard, session.step) = "nominal" THEN AmountTexts
          ELSE {StepText[stepField(session.wizard, session.step)]})
         \cup (IF session.step \in {1, lastStep(session.wizard)} THEN {ButtonTransfer} ELSE {})

\* bot.on('message'): a text that is not a command.  The session is looked up
\* without an owner check; handleWizardStep runs up to its first await; with
\* no session handleKeyboardButtons runs at once.
onMessage(userId, chatId, text) ==
    LET key == KeyOf(userId, chatId)
        session == userStates[key]
        out == IF session = NoSession THEN "none" ELSE stepOutcome(session, text)
    IN
    /\ text \in Replies(session)
    /\ out # "none" => BagCardinality(tasks) < MaxTasks
    /\ out = "confirm" => Cardinality(prompts) + PromptsPending < MaxPrompts
    /\ out = "check" => Len(providerCalls) + CallsPending < MaxCalls
    /\ lastEvent' = eventOf(userId)
    /\ reply' = replyOf(userId)
    /\ CASE out = "none" ->
              /\ userStates' = handleKeyboardButtons(userStates, userId, chatId, buttonKind(text), now)
              /\ UNCHANGED tasks
         [] out = "prompt" ->
              /\ userStates' = [userStates EXCEPT ![key] =
                                  advance(session, stepField(session.wizard, session.step),
                                          stepValue(session.wizard, session.step, text))]
              /\ tasks' = Suspend(Task("wiz_send", userId, chatId, buttonKind(text), EmptyData))
         [] out = "reject" ->
              /\ tasks' = Suspend(Task("wiz_reject", userId, chatId, buttonKind(text), EmptyData))
              /\ UNCHANGED userStates
         [] OTHER ->
              /\ userStates' = [userStates EXCEPT ![key] = NoSession]
              /\ tasks' = Suspend(Task(IF out = "check" THEN "wiz_check_pre" ELSE "wiz_confirm",
                                       userId, chatId, buttonKind(text),
                                       [wizard |-> session.wizard,
                                        data |-> dataAfter(session, text, now)]))
    /\ UNCHANGED <<now, prompts, providerCalls>>
    /\ UNCHANGED journalVars
    /\ UNCHANGED <<clientVars, dbVars, boot, life>>

\* the end of handleWizardStep without an error, then handleKeyboardButtons:
\*   wiz_send     the next prompt was sent
\*   wiz_reject   the validation message was sent: the session is deleted
\*   wiz_confirm  the confirmation prompt was sent
\*   wiz_check_call  checkAccount returned and its answer was shown
wizardStepDone(t) ==
    LET key == KeyOf(t.user, t.chat)
        afterStep == IF t.pc = "wiz_reject" THEN [userStates EXCEPT ![key] = NoSession]
                     ELSE userStates
    IN
    /\ t.pc \in {"wiz_send", "wiz_reject", "wiz_confirm", "wiz_check_call"}
    /\ userStates' = handleKeyboardButtons(afterStep, t.user, t.chat, t.button, now)
    /\ prompts' = IF t.pc = "wiz_confirm"
                  THEN prompts \cup {callbackData(t.data.wizard, t.data.data)}
                  ELSE prompts
    /\ tasks' = Finish(t)
    /\ lastEvent' = "none"
    /\ reply' = "none"
    /\ UNCHANGED <<now, providerCalls>>
    /\ UNCHANGED journalVars
    /\ UNCHANGED <<clientVars, dbVars, boot, life>>

\* the provider operation a handler starts when it resumes at pc, and the
\* handler that starts it; here with the account check turned into a transfer
callOf_transferFromWizard(pc) ==
    CASE pc = "wiz_check_pre" -> [op |-> "createTransfer", by |-> "wizard:check_account"]
      [] pc = "bl_pre" -> [op |-> "getBankList", by |-> "command:banklist"]
      [] OTHER -> [op |-> "createTransfer", by |-> "callback:confirm_transfer"]

\* the provider operation a handler starts when it resumes at pc, and the
\* handler that starts it
callOf(pc) ==
    CASE pc = "wiz_check_pre" -> [op |-> "checkAccount", by |-> "wizard:check_account"]
      [] pc = "bl_pre" -> [op |-> "getBankList", by |-> "command:banklist"]
      [] OTHER -> [op |-> "createTransfer", by |-> "callback:confirm_transfer"]

\* the entry of providerCalls for the operation the handler t starts
CallBy(t, ref) == [op |-> callOf(t.pc).op, by |-> callOf(t.pc).by, user |-> t.user, ref |-> ref]

\* handleCheckAccountWizard step 2: the chat action and the loading message
\* were sent, apiClient.checkAccount is called
wizardCheckAccount(t) ==
    /\ t.pc = "wiz_check_pre"
    /\ providerCalls' = Append(providerCalls, CallBy(t, "none"))
    /\ tasks' = Resume(t, [t EXCEPT !.pc = "wiz_check_call"])
    /\ lastEvent' = "none"
    /\ reply' = "none"
    /\ UNCHANGED <<userStates, now, prompts>>
    /\ UNCHANGED journalVars
    /\ UNCHANGED <<clientVars, dbVars, boot, life>>

\* an awaited bot call of a wizard step is rejected: the catch block of
\* handleWizardStep sends its error message
wizardStepFails(t) ==
    /\ t.pc \in {"wiz_send", "wiz_reject", "wiz_confirm", "wiz_check_pre", "wiz_check_call"}
    /\ tasks' = Resume(t, [t EXCEPT !.pc = "wiz_err", !.data = EmptyData])
    /\ lastEvent' = "none"
    /\ reply' = "none"
    /\ UNCHANGED <<userStates, now, prompts, providerCalls>>
    /\ UNCHANGED journalVars
    /\ UNCHANGED <<clientVars, dbVars, boot, life>>

\* the catch block of handleWizardStep after its error message was sent:
\* the key's session is deleted, then handleKeyboardButtons runs
wizardErrorSent(t) ==
    LET key == KeyOf(t.user, t.chat) IN
    /\ t.pc = "wiz_err"
    /\ userStates' = handleKeyboardButtons([userStates EXCEPT ![key] = NoSession],
                                           t.user, t.chat, t.button, now)
    /\ tasks' = Finish(t)
    /\ lastEvent' = "none"
    /\ reply' = "none"
    /\ UNCHANGED <<now, prompts, providerCalls>>
    /\ UNCHANGED journalVars
    /\ UNCHANGED <<clientVars, dbVars, boot, life>>

\* the error message of handleWizardStep is rejected too: the exception
\* reaches the catch block of the message handler, nothing else runs
wizardErrorFails(t) ==
    /\ t.pc = "wiz_err"
    /\ tasks' = Finish(t)
    /\ lastEvent' = "none"
    /\ reply' = "none"
    /\ UNCHANGED <<userStates, now, prompts, providerCalls>>
    /\ UNCHANGED journalVars
    /\ UNCHANGED <<clientVars, dbVars, boot, life>>

(***************************************************************************)
(* DatabaseManager: the journal                                            *)
(***************************************************************************)
\* counters that count every pushed record
statsAfterAdd_always(sys, counter, status, nominal) ==
    [sys EXCEPT ![counter] = @ + 1, !.total_volume = @ + nominal]

\* addTransaction / addDeposit: the counters after the record is pushed
statsAfterAdd(sys, counter, status, nominal) ==
    IF status = "success"
    THEN [sys EXCEPT ![counter] = @ + 1, !.total_volume = @ + nominal]
    ELSE sys

\* uuidv4(): the n-th fresh id
uuidv4(n) == [prefix |-> "uuid", digits |-> n]

\* obj.field || fallback: an absent field stands for every falsy value
Field(obj, field, fallback) == IF field \in DOMAIN obj THEN obj[field] ELSE fallback

\* addTransaction(transaction): the record tx it stores
newTransaction(transaction, fresh, t) ==
    [id |-> Field(transaction, "id", fresh),
     reff_id |-> Field(transaction, "reff_id", RefId("TRF", t)),
     user_id |-> transaction.user_id,
     type |-> Field(transaction, "type", "transfer"),
     bank_code |-> transaction.bank_code,
     account_number |-> transaction.account_number,
     account_name |-> transaction.account_name,
     nominal |-> transaction.nominal,
     fee |-> Field(transaction, "fee", 0),
     total |-> Field(transaction, "total", transaction.nominal),
     status |-> Field(transaction, "status", "pending"),
     created_at |-> t,
     updated_at |-> t]

\* addDeposit(deposit): the record dep it stores
newDeposit(deposit, fresh, t) ==
    [id |-> Field(deposit, "id", fresh),
     reff_id |-> Field(deposit, "reff_id", RefId("DEP", t)),
     user_id |-> deposit.user_id,
     type |-> Field(deposit, "type", "deposit"),
     method |-> Field(deposit, "method", "unknown"),
     nominal |-> deposit.nominal,
     fee |-> Field(deposit, "fee", 0),
     total |-> Field(deposit, "total", deposit.nominal),
     status |-> Field(deposit, "status", "pending"),
     created_at |-> t,
     updated_at |-> t]

\* a record that is given a reference id of its own, made from a later
\* reading of the clock
addTransaction_ownRef(userId, data, status) ==
    LET tx == newTransaction(
                 [user_id |-> userId, type |-> "transfer", bank_code |-> data.kode_bank,
                  account_number |-> data.nomor_akun, account_name |-> data.nama_pemilik,
                  nominal |-> data.nominal, total |-> data.nominal,
                  status |-> IF status = "" THEN "pending" ELSE status,
                  reff_id |-> RefId("TRF", now + 1)],
                 uuidv4(nextId), now)
    IN
    /\ transactions' = Append(transactions, tx)
    /\ system' = statsAfterAdd(system, "successful_transfers", tx.status, tx.nominal)
    /\ nextId' = nextId + 1
    /\ save
    /\ UNCHANGED <<deposits, users>>

\* addTransaction(transaction) as handleConfirmTransfer calls it: without an
\* id, with the provider's status or pending
addTransaction(userId, data, status) ==
    LET tx == newTransaction(
                 [user_id |-> userId, type |-> "transfer", bank_code |-> data.kode_bank,
                  account_number |-> data.nomor_akun, account_name |-> data.nama_pemilik,
                  nominal |-> data.nominal, total |-> data.nominal,
                  status |-> IF status = "" THEN "pending" ELSE status,
                  reff_id |-> data.ref_id],
                 uuidv4(nextId), now)
    IN
    /\ transactions' = Append(transactions, tx)
    /\ system' = statsAfterAdd(system, "successful_transfers", tx.status, tx.nominal)
    /\ nextId' = nextId + 1
    /\ save
    /\ UNCHANGED <<deposits, users>>

\* a deposit stored as already paid
addDeposit_asSuccess(userId, data) ==
    LET dep == newDeposit(
                  [user_id |-> userId, type |-> "deposit", method |-> "manual",
                   nominal |-> data.nominal, fee |-> Fee(data.nominal),
                   total |-> data.nominal + Fee(data.nominal), status |-> "success",
                   reff_id |-> data.ref_id],
                  uuidv4(nextId), now)
    IN
    /\ deposits' = Append(deposits, dep)
    /\ system' = statsAfterAdd(system, "successful_deposits", dep.status, dep.nominal)
    /\ nextId' = nextId + 1
    /\ save
    /\ UNCHANGED <<transactions, users>>

\* addDeposit(deposit) as handleConfirmDeposit calls it: without an id, as
\* a pending manual deposit with its fee
addDeposit(userId, data) ==
    LET dep == newDeposit(
                  [user_id |-> userId, type |-> "deposit", method |-> "manual",
                   nominal |-> data.nominal, fee |-> Fee(data.nominal),
                   total |-> data.nominal + Fee(data.nominal), status |-> "pending",
                   reff_id |-> data.ref_id],
                  uuidv4(nextId), now)
    IN
    /\ deposits' = Append(deposits, dep)
    /\ system' = statsAfterAdd(system, "successful_deposits", dep.status, dep.nominal)
    /\ nextId' = nextId + 1
    /\ save
    /\ UNCHANGED <<transactions, users>>

\* /start: handleStart: the owner check, then db.addUser and the welcome
handleStart(userId, chatId) ==
    /\ IF isOwner(userId)
       THEN /\ SaveFits
            /\ users' = users \cup {userId}
            /\ save
       ELSE UNCHANGED <<users, lock, saveQueue>>
    /\ lastEvent' = eventOf(userId)
    /\ reply' = replyOf(userId)
    /\ UNCHANGED <<userStates, tasks, now, prompts,
                   providerCalls, transactions, deposits, system, nextId>>
    /\ UNCHANGED <<clientVars, dbVars, boot, life>>

\* /help: handleHelp sends the help text; it does not call isOwner
handleHelp(userId, chatId) ==
    /\ lastEvent' = eventOf(userId)
    /\ reply' = "help"
    /\ UNCHANGED <<userStates, tasks, now, prompts, providerCalls>>
    /\ UNCHANGED journalVars
    /\ UNCHANGED <<clientVars, dbVars, boot, life>>

\* the commands whose handlers read the journal or the settings and show them
ReportCommands == {"checkstatus", "history", "settings", "stats"}

\* handleCheckStatus / handleHistory / handleSettings / handleStats: the owner
\* check, then the report is built from the journal and sent
handleReport(cmd, userId, chatId) ==
    /\ cmd \in ReportCommands
    /\ lastEvent' = eventOf(userId)
    /\ reply' = replyOf(userId)
    /\ UNCHANGED <<userStates, tasks, now, prompts, providerCalls>>
    /\ UNCHANGED journalVars
    /\ UNCHANGED <<clientVars, dbVars, boot, life>>

\* /banklist: handleBankList up to its first awaits (chat action, loading message)
handleBankList(userId, chatId) ==
    /\ IF isOwner(userId)
       THEN /\ BagCardinality(tasks) < MaxTasks
            /\ Len(providerCalls) + CallsPending < MaxCalls
            /\ tasks' = Suspend(Task("bl_pre", userId, chatId, "none", EmptyData))
       ELSE UNCHANGED tasks
    /\ lastEvent' = eventOf(userId)
    /\ reply' = replyOf(userId)
    /\ UNCHANGED <<userStates, now, prompts, providerCalls>>
    /\ UNCHANGED journalVars
    /\ UNCHANGED <<clientVars, dbVars, boot, life>>

\* handleBankList: apiClient.getBankList() is called; what follows only
\* shows the answer
bankListCall(t) ==
    /\ t.pc = "bl_pre"
    /\ providerCalls' = Append(providerCalls, CallBy(t, "none"))
    /\ tasks' = Finish(t)
    /\ lastEvent' = "none"
    /\ reply' = "none"
    /\ UNCHANGED <<userStates, now, prompts>>
    /\ UNCHANGED journalVars
    /\ UNCHANGED <<clientVars, dbVars, boot, life>>

\* a dispatch that treats every other callback as an accepted deposit
callbackRoute_cancelAccepts(data) ==
    IF data.prefix = "confirm_transfer:" THEN "ct_pre" ELSE "cd_pre"

\* the handler handleCallbackQuery hands a callback to
callbackRoute(data) ==
    IF data.prefix = "confirm_transfer:" THEN "ct_pre"
    ELSE IF data.prefix = "confirm_deposit:" THEN "cd_pre"
    ELSE "none"

\* handleCallbackQuery: the owner check and the dispatch on the callback
\* data; handleConfirmTransfer / handleConfirmDeposit parse the payload and
\* suspend on answering the query and editing the message; cancel_action
\* edits the message and answers the query
callbackQuery(userId, chatId, data) ==
    LET route == IF isOwner(userId) THEN callbackRoute(data) ELSE "none" IN
    /\ data \in prompts \cup {CancelAction}
    /\ tasks' = IF route = "none" THEN tasks
                ELSE Suspend(Task(route, userId, chatId, "none", parse(data.json)))
    /\ lastEvent' = IF isOwner(userId) /\ data = CancelAction THEN "cancel" ELSE eventOf(userId)
    /\ reply' = replyOf(userId)
    /\ UNCHANGED <<userStates, now, prompts, providerCalls>>
    /\ UNCHANGED journalVars
    /\ UNCHANGED <<clientVars, dbVars, boot, life>>

\* a callback handled while fewer than maxCalls provider operations and
\* fewer than maxRecords journal records exist or are on their way
boundedCallback(userId, chatId, data, maxCalls, maxRecords) ==
    LET route == IF isOwner(userId) THEN callbackRoute(data) ELSE "none" IN
    /\ route # "none" => BagCardinality(tasks) < MaxTasks
    /\ route = "ct_pre" => Len(providerCalls) + CallsPending < maxCalls
    /\ route # "none" => Len(transactions) + Len(deposits) + RecordsPending < maxRecords
    /\ callbackQuery(userId, chatId, data)

\* bot.on('callback_query') as Spec explores it
handleCallbackQuery(userId, chatId, data) ==
    boundedCallback(userId, chatId, data, MaxCalls, MaxRecords)

\* handleConfirmTransfer: apiClient.createTransfer(transferData) is called
confirmTransferCall(t) ==
    /\ t.pc = "ct_pre"
    /\ providerCalls' = Append(providerCalls, CallBy(t, t.data.ref_id))
    /\ tasks' = Resume(t, [t EXCEPT !.pc = "ct_call"])
    /\ lastEvent' = "none"
    /\ reply' = "none"
    /\ UNCHANGED <<userStates, now, prompts>>
    /\ UNCHANGED journalVars
    /\ UNCHANGED <<clientVars, dbVars, boot, life>>

\* createTransfer's own check: kode_bank, nomor_akun and nominal are truthy
validTransferData(data) == data.kode_bank # <<>> /\ data.nomor_akun # <<>> /\ data.nominal # 0

\* the status field of the provider's transfer object ("" when absent)
ProviderStatuses == {"", "success", "failed"}

\* handleConfirmTransfer: createTransfer returned; on success the record is
\* added to the journal, then the message is edited
confirmTransferResult(t, success, status) ==
    /\ t.pc = "ct_call"
    /\ success => validTransferData(t.data)
    /\ ~success => status = ""
    /\ IF success
       THEN /\ SaveFits
            /\ addTransaction(t.user, t.data, status)
       ELSE UNCHANGED journalVars
    /\ tasks' = Finish(t)
    /\ lastEvent' = "none"
    /\ reply' = "none"
    /\ UNCHANGED <<userStates, now, prompts, providerCalls>>
    /\ UNCHANGED <<clientVars, dbVars, boot, life>>

\* handleConfirmDeposit: the deposit is stored as pending
confirmDepositStore(t) ==
    /\ t.pc = "cd_pre"
    /\ SaveFits
    /\ addDeposit(t.user, t.data)
    /\ tasks' = Finish(t)
    /\ lastEvent' = "none"
    /\ reply' = "none"
    /\ UNCHANGED <<userStates, now, prompts, providerCalls>>
    /\ UNCHANGED <<clientVars, dbVars, boot, life>>

\* answering the query or editing the message is rejected in a handler that
\* has not yet called the provider or the journal: its catch block reports it
handlerFails(t) ==
    /\ t.pc \in {"ct_pre", "cd_pre", "bl_pre"}
    /\ tasks' = Finish(t)
    /\ lastEvent' = "none"
    /\ reply' = "none"
    /\ UNCHANGED <<userStates, now, prompts, providerCalls>>
    /\ UNCHANGED journalVars
    /\ UNCHANGED <<clientVars, dbVars, boot, life>>

Next ==
    \/ saveFinished
    \/ \E u \in Users, c \in Chats, cmd \in DOMAIN TriggerKind : handleTrigger(cmd, u, c)
    \/ \E u \in Users, c \in Chats : handleStart(u, c)
    \/ \E u \in Users, c \in Chats : handleBankList(u, c)
    \/ \E u \in Users, c \in Chats, text \in Texts : onMessage(u, c, text)
    \/ \E u \in Users, c \in Chats, data \in prompts \cup {CancelAction} : handleCallbackQuery(u, c, data)
    \/ \E t \in BagToSet(tasks) : wizardStepDone(t)
    \/ \E t \in BagToSet(tasks) : wizardCheckAccount(t)
    \/ \E t \in BagToSet(tasks) : wizardStepFails(t)
    \/ \E t \in BagToSet(tasks) : wizardErrorSent(t)
    \/ \E t \in BagToSet(tasks) : wizardErrorFails(t)
    \/ \E t \in BagToSet(tasks) : bankListCall(t)
    \/ \E t \in BagToSet(tasks) : confirmTransferCall(t)
    \/ \E t \in BagToSet(tasks), success \in BOOLEAN, status \in ProviderStatuses :
          confirmTransferResult(t, success, status)
    \/ \E t \in BagToSet(tasks) : confirmDepositStore(t)
    \/ \E t \in BagToSet(tasks) : handlerFails(t)

\* the bot with every handler; the clock stands still
Spec == Init /\ [][Next]_vars

\* the wizard flow alone: triggers, replies, the clock and the sweep
NextWizard ==
    \/ Tick
    \/ cleanupUserStates
    \/ \E u \in Users, c \in Chats, cmd \in DOMAIN TriggerKind : handleTrigger(cmd, u, c)
    \/ \E u \in Users, c \in Chats, text \in Texts : onMessage(u, c, text)
    \/ \E t \in BagToSet(tasks) : wizardStepDone(t)
    \/ \E t \in BagToSet(tasks) : wizardCheckAccount(t)
    \/ \E t \in BagToSet(tasks) : wizardStepFails(t)
    \/ \E t \in BagToSet(tasks) : wizardErrorSent(t)
    \/ \E t \in BagToSet(tasks) : wizardErrorFails(t)

SpecWizard == Init /\ [][NextWizard]_vars


\* accept callbacks handled for one confirmation prompt
MaxAccepts == 2

\* bot.on('callback_query') with a callback delivered up to MaxAccepts times
handleCallbackAgain(userId, chatId, data) ==
    boundedCallback(userId, chatId, data, MaxAccepts, MaxAccepts)

\* the transfer flow from the trigger to the journal, with the accept
\* callback of a confirmation delivered more than once
NextAccept ==
    \/ saveFinished
    \/ \E u \in Users, c \in Chats : handleTrigger("createtransfer", u, c)
    \/ \E u \in Users, c \in Chats, text \in Texts : onMessage(u, c, text)
    \/ \E u \in Users, c \in Chats, data \in prompts \cup {CancelAction} : handleCallbackAgain(u, c, data)
    \/ \E t \in BagToSet(tasks) : wizardStepDone(t)
    \/ \E t \in BagToSet(tasks) : confirmTransferCall(t)
    \/ \E t \in BagToSet(tasks), success \in BOOLEAN, status \in ProviderStatuses :
          confirmTransferResult(t, success, status)
    \/ \E t \in BagToSet(tasks) : handlerFails(t)

SpecAccept == Init /\ [][NextAccept]_vars

\* the command surface: every command handler, and what the handlers it
\* suspends go on to do
NextCommands ==
    \/ saveFinished
    \/ \E u \in Users, c \in Chats, cmd \in DOMAIN TriggerKind : handleTrigger(cmd, u, c)
    \/ \E u \in Users, c \in Chats : handleStart(u, c)
    \/ \E u \in Users, c \in Chats : handleBankList(u, c)
    \/ \E u \in Users, c \in Chats : handleHelp(u, c)
    \/ \E u \in Users, c \in Chats, cmd \in ReportCommands : handleReport(cmd, u, c)
    \/ \E t \in BagToSet(tasks) : bankListCall(t)
    \/ \E t \in BagToSet(tasks) : handlerFails(t)

SpecCommands == Init /\ [][NextCommands]_vars

(***************************************************************************)
(* BotManager.initialize                                                   *)
(***************************************************************************)
\* a value of process.env: not set, set to the empty string, or set
EnvValues == {"unset", "empty", "set"}

\* the values initialize() requires, and the one it has a default for
RequiredNames == {"TELEGRAM_BOT_TOKEN", "OWNER_TELEGRAM_ID", "ATLANTIC_API_KEY"}
EnvNames == RequiredNames \cup {"ATLANTIC_BASE_URL"}

\* !value
missing(value) == value # "set"

\* a validation that looks at the bot token only
configComplete_tokenOnly(env) == ~missing(env["TELEGRAM_BOT_TOKEN"])

\* none of the three checks of initialize() throws
configComplete(env) == \A n \in RequiredNames : ~missing(env[n])

\* the listeners setupErrorHandlers, setupCommands, setupMessageHandlers and
\* setupCallbackHandlers register
HandlerGroups == {"error", "command", "message", "callback"}

\* new BotManager() in an environment env
NewBoot(env) ==
    [env |-> env, pc |-> "new", ret |-> "none", dbInitialized |-> FALSE, saves |-> 0,
     keySame |-> TRUE, client |-> "none", tested |-> FALSE, handlers |-> {}]

InitStartup ==
    /\ ClientIdle
    /\ BotIdle
    /\ boot \in {NewBoot(env) : env \in [EnvNames -> EnvValues]}
    /\ life = <<>>

\* what initialize() leaves alone
startupOnly ==
    /\ UNCHANGED <<userStates, tasks, now, lastEvent, reply, prompts, providerCalls>>
    /\ UNCHANGED <<transactions, deposits, users, system, nextId, lock, saveQueue>>
    /\ UNCHANGED <<clientVars, dbVars, life>>

\* new AtlanticAPIClient(apiKey, process.env.ATLANTIC_BASE_URL || default),
\* then testConnection() is called
withClient(b) ==
    [b EXCEPT !.client = IF missing(b.env["ATLANTIC_BASE_URL"]) THEN "default" ELSE "custom",
              !.pc = "test"]

\* the api key is compared with the stored one: a difference is saved
afterOwner(b, keySame) ==
    IF keySame THEN withClient(b) ELSE [b EXCEPT !.pc = "save_key"]

\* initialize() up to its first await: the three checks, then db.initialize()
\* is called; a failed check is caught and initialize() returns false
initialize ==
    /\ boot.pc = "new"
    /\ boot' = IF configComplete(boot.env)
               THEN [boot EXCEPT !.pc = "db"]
               ELSE [boot EXCEPT !.pc = "done", !.ret = "false"]
    /\ startupOnly

\* db.initialize() has returned; the owner id is compared with the stored
\* one, and a difference is saved
databaseReady(ownerSame, keySame) ==
    /\ boot.pc = "db"
    /\ boot' = IF ownerSame
               THEN afterOwner([boot EXCEPT !.dbInitialized = TRUE], keySame)
               ELSE [boot EXCEPT !.dbInitialized = TRUE, !.pc = "save_owner", !.keySame = keySame]
    /\ startupOnly

\* the save of the owner id has returned
ownerSaved ==
    /\ boot.pc = "save_owner"
    /\ boot' = afterOwner([boot EXCEPT !.saves = @ + 1], boot.keySame)
    /\ startupOnly

\* the save of the api key has returned
keySaved ==
    /\ boot.pc = "save_key"
    /\ boot' = withClient([boot EXCEPT !.saves = @ + 1])
    /\ startupOnly

\* testConnection() has returned, connected or not; new TelegramBot(...)
\* returns or throws; the four setup methods register the listeners
connectionTested(connected, created) ==
    /\ boot.pc = "test"
    /\ boot' = IF created
               THEN [boot EXCEPT !.tested = TRUE, !.handlers = HandlerGroups,
                                 !.pc = "done", !.ret = "true"]
               ELSE [boot EXCEPT !.tested = TRUE, !.pc = "done", !.ret = "false"]
    /\ startupOnly

NextStartup ==
    \/ initialize
    \/ \E ownerSame \in BOOLEAN, keySame \in BOOLEAN : databaseReady(ownerSame, keySame)
    \/ ownerSaved
    \/ keySaved
    \/ \E connected \in BOOLEAN, created \in BOOLEAN : connectionTested(connected, created)

SpecStartup == InitStartup /\ [][NextStartup]_vars

(***************************************************************************)
(* BotManager: start(), stop() and restartBot() after fatal polling errors *)
(***************************************************************************)
\* the restartBot() invocations, in the order their polling errors arrive
Restarts == 1..MaxRestarts

\* life.pc[r] is the position of a restartBot() invocation
\*   "idle"      no polling error has scheduled it
\*   "timer"     scheduled by setTimeout(..., 5000)
\*   "wait"      stop() has returned, the 3000 ms pause runs
\*   "starting"  start() awaits bot.startPolling()
\*   "notify"    start() awaits sendOwnerNotification()
\*   "done"      restartBot() has returned

\* what start(), stop() and restartBot() leave alone
lifeOnly ==
    /\ UNCHANGED <<userStates, tasks, now, lastEvent, reply, prompts, providerCalls>>
    /\ UNCHANGED <<transactions, deposits, users, system, nextId, lock, saveQueue>>
    /\ UNCHANGED <<clientVars, dbVars, boot>>

\* timers of one delay fire in the order they were set: the invocations
\* scheduled earlier have left the positions in pcs
earlierPast(r, pcs) == \A q \in Restarts : q < r => life.pc[q] \notin pcs

\* start() up to its first await: with isRunning it returns, otherwise
\* bot.startPolling() is called
startEnters(l, r) ==
    IF l.isRunning THEN [l EXCEPT !.pc[r] = "done"]
    ELSE [l EXCEPT !.starting = @ + 1, !.pc[r] = "starting"]

\* stop(): with isRunning, bot.stopPolling() is called and isRunning cleared
stop(l) == IF l.isRunning THEN [l EXCEPT !.isRunning = FALSE, !.polling = FALSE] ELSE l

\* bot.on('polling_error') with error.code EFATAL: a restart is scheduled
pollingError(r) ==
    /\ life.polling
    /\ life.pc[r] = "idle"
    /\ earlierPast(r, {"idle"})
    /\ life' = [life EXCEPT !.pc[r] = "timer"]
    /\ lifeOnly

\* the 5000 ms timer fires: restartBot() runs stop() and starts its pause
restartBot(r) ==
    /\ life.pc[r] = "timer"
    /\ earlierPast(r, {"timer"})
    /\ life' = [stop(life) EXCEPT !.pc[r] = "wait"]
    /\ lifeOnly

\* the pause of restartBot() ends: start() is entered
restartStarts(r) ==
    /\ life.pc[r] = "wait"
    /\ earlierPast(r, {"timer", "wait"})
    /\ life' = startEnters(life, r)
    /\ lifeOnly

\* bot.startPolling() settles: resolved, isRunning is set and the owner is
\* notified; rejected, isRunning is cleared and restartBot() logs the error
pollingStarted(r, ok) ==
    /\ life.pc[r] = "starting"
    /\ life' = IF ok
               THEN [life EXCEPT !.polling = TRUE, !.isRunning = TRUE,
                                 !.starting = @ - 1, !.pc[r] = "notify"]
               ELSE [life EXCEPT !.isRunning = FALSE, !.starting = @ - 1, !.pc[r] = "done"]
    /\ lifeOnly

\* sendOwnerNotification() returns (it catches its own errors)
ownerNotified(r) ==
    /\ life.pc[r] = "notify"
    /\ life' = [life EXCEPT !.pc[r] = "done"]
    /\ lifeOnly

NextLifecycle ==
    \/ \E r \in Restarts : pollingError(r)
    \/ \E r \in Restarts : restartBot(r)
    \/ \E r \in Restarts : restartStarts(r)
    \/ \E r \in Restarts, ok \in BOOLEAN : pollingStarted(r, ok)
    \/ \E r \in Restarts : ownerNotified(r)

\* the running bot and the restarts its polling errors schedule
SpecLifecycle == Init /\ [][NextLifecycle]_vars

(***************************************************************************)
(* The standalone entry point (index.js up to the BotManager class): the   *)
(* reply chain of /create_transfer and the callback_query listener         *)
(***************************************************************************)
\* database.settings.min_transfer of the standalone bot
min_transfer == 10000

\* JSON.stringify writes NaN as null: the null read where a number is expected
JsonNull == 0 - 2

\* the replies explored for the amount prompt of the reply chain
ChainAmountTexts ==
    AmountTexts \cup {<<"1", "0", "0", "0", "0">>, <<"a", "b", "c">>}

Skip == <<"/", "s", "k", "i", "p">>

\* the field a prompt of the reply chain asks for
chainField(step) ==
    CASE step = 1 -> "kode_bank"
      [] step = 2 -> "nomor_akun"
      [] step = 3 -> "nama_pemilik"
      [] step = 4 -> "nominal"
      [] step = 5 -> "email"
      [] step = 6 -> "phone"
      [] OTHER -> "note"

\* the replies explored for a prompt of the reply chain
ChainReplies(step) ==
    IF step \in 1..3 THEN {StepText[chainField(step)]}
    ELSE IF step = 4 THEN ChainAmountTexts
    ELSE {Skip}

\* the amount step: if (nominal < min_transfer) return; if (nominal >
\* max_transfer) return; a comparison with NaN is false
chainAmountRejected(nominal) ==
    nominal # NaN /\ (nominal < min_transfer \/ nominal > max_transfer)

\* JSON.parse(JSON.stringify(transferData)): the members as they are, a NaN
\* number as null
throughJson(data) ==
    [f \in DOMAIN data |-> IF f = "nominal" /\ data[f] = NaN THEN JsonNull ELSE data[f]]

\* the accept button of the standalone confirmation:
\* `confirm_transfer_${JSON.stringify(transferData)}`
chainCallbackData(data) == [prefix |-> "confirm_transfer_", json |-> throughJson(data)]

CancelTransfer == [prefix |-> "cancel_transfer", json |-> <<>>]

\* the status button of a transaction: `check_status_${id}`
CheckStatusData == [prefix |-> "check_status_", json |-> uuidv4(1)]

\* what the standalone bot leaves alone
standaloneOnly ==
    /\ UNCHANGED <<users, system, deposits, lock, saveQueue>>
    /\ UNCHANGED <<clientVars, dbVars, boot, life>>

\* bot.onText(/\/create_transfer/): the owner check, the first prompt and the
\* listener for its reply, with an empty transferData
standaloneCreateTransfer(userId, chatId) ==
    /\ userStates' = IF isOwner(userId)
                     THEN StartWizard(userStates, KeyOf(OwnerId, chatId), "create_transfer", now)
                     ELSE userStates
    /\ lastEvent' = eventOf(userId)
    /\ reply' = replyOf(userId)
    /\ UNCHANGED <<tasks, now, prompts, providerCalls, transactions, nextId>>
    /\ standaloneOnly

\* bot.onReplyToMessage of the chain's current prompt: the listener checks
\* neither the sender nor the text; the amount step parses with parseInt and
\* returns on an amount below the minimum or above the maximum; the last
\* reply sends the confirmation with its accept button
standaloneReply(userId, chatId, text) ==
    LET key == KeyOf(OwnerId, chatId)
        session == userStates[key]
        value == IF session.step = 4 THEN parseInt(text) ELSE text
        stored == SetField(session.data, chainField(session.step), value)
    IN
    /\ session # NoSession
    /\ text \in ChainReplies(session.step)
    /\ CASE session.step \in 1..3 ->
              /\ userStates' = [userStates EXCEPT ![key] =
                                  [session EXCEPT !.data = stored, !.step = @ + 1]]
              /\ UNCHANGED prompts
         [] session.step = 4 ->
              /\ userStates' = IF chainAmountRejected(value) THEN userStates
                               ELSE [userStates EXCEPT ![key] =
                                       [session EXCEPT
                                          !.data = SetField(stored, "ref_id", RefId("TRF", now)),
                                          !.step = 5]]
              /\ UNCHANGED prompts
         [] session.step \in 5..6 ->
              /\ userStates' = [userStates EXCEPT ![key] = [session EXCEPT !.step = @ + 1]]
              /\ UNCHANGED prompts
         [] OTHER ->
              /\ Cardinality(prompts) < MaxPrompts
              /\ userStates' = [userStates EXCEPT ![key] = NoSession]
              /\ prompts' = prompts \cup {chainCallbackData(session.data)}
    /\ lastEvent' = eventOf(userId)
    /\ reply' = "none"
    /\ UNCHANGED <<tasks, now, providerCalls, transactions, nextId>>
    /\ standaloneOnly

\* bot.on('callback_query'): no check of callbackQuery.from; an accept button
\* calls createTransfer, a status button calls checkTransferStatus, the
\* cancel button only answers
standaloneCallback(userId, chatId, data) ==
    /\ data \in prompts \cup {CancelTransfer, CheckStatusData}
    /\ IF data = CancelTransfer
       THEN UNCHANGED <<providerCalls, tasks>>
       ELSE /\ Len(providerCalls) < MaxCalls
            /\ BagCardinality(tasks) < MaxTasks
            /\ providerCalls' = Append(providerCalls,
                  [op |-> IF data = CheckStatusData THEN "checkTransferStatus" ELSE "createTransfer",
                   by |-> "standalone:callback_query", user |-> userId,
                   ref |-> IF data = CheckStatusData THEN data.json ELSE data.json.ref_id])
            /\ tasks' = Suspend(Task(IF data = CheckStatusData THEN "sa_status" ELSE "sa_transfer",
                                     userId, chatId, "none", data.json))
    /\ lastEvent' = eventOf(userId)
    /\ reply' = "none"
    /\ UNCHANGED <<userStates, now, prompts, transactions, nextId>>
    /\ standaloneOnly

\* createTransfer or checkTransferStatus has returned to the listener: a
\* transfer the provider accepted is pushed on database.transactions and
\* saveDatabase() writes the file
standaloneResult(t, accepted, status) ==
    /\ t.pc \in {"sa_transfer", "sa_status"}
    /\ IF t.pc = "sa_transfer" /\ accepted
       THEN /\ transactions' = Append(transactions,
                  [id |-> uuidv4(nextId), reff_id |-> t.data.ref_id, user_id |-> t.chat,
                   bank_code |-> t.data.kode_bank, account_number |-> t.data.nomor_akun,
                   account_name |-> t.data.nama_pemilik, nominal |-> t.data.nominal,
                   fee |-> 0, total |-> t.data.nominal,
                   status |-> Default(status, "pending"), created_at |-> now])
            /\ nextId' = nextId + 1
       ELSE UNCHANGED <<transactions, nextId>>
    /\ tasks' = Finish(t)
    /\ lastEvent' = "none"
    /\ reply' = "none"
    /\ UNCHANGED <<userStates, now, prompts, providerCalls>>
    /\ standaloneOnly

NextStandalone ==
    \/ \E u \in Users, c \in Chats : standaloneCreateTransfer(u, c)
    \/ \E u \in Users, c \in Chats, text \in ChainAmountTexts \cup {Skip} \cup {StepText[f] : f \in DOMAIN StepText} :
          standaloneReply(u, c, text)
    \/ \E u \in Users, c \in Chats, data \in prompts \cup {CancelTransfer, CheckStatusData} :
          standaloneCallback(u, c, data)
    \/ \E t \in BagToSet(tasks), accepted \in BOOLEAN, status \in ProviderStatuses :
          standaloneResult(t, accepted, status)

\* the standalone bot with its database loaded
SpecStandalone == Init /\ [][NextStandalone]_vars
(***************************************************************************)
(* DatabaseManager: its methods called directly                            *)
(***************************************************************************)
\* calls of journal methods explored in one behaviour
MaxJournalCalls == 3
\* the largest limit passed to getUserTransactions / getUserDeposits
MaxLimit == 2

\* an id and a reference id a caller supplies, and a key no record carries
ExplicitId == [prefix |-> "TX", digits |-> 1]
ExplicitRef == RefId("TRF", 1)
UnknownKey == [prefix |-> "TX", digits |-> 9]

\* the statuses passed to updateTransactionStatus / updateDepositStatus
Statuses == {"success", "failed"}

\* the amounts of the records explored
JournalAmounts == {5000, 7000}

\* { ...a, ...b }
Merge(a, b) == [f \in DOMAIN a \cup DOMAIN b |-> IF f \in DOMAIN b THEN b[f] ELSE a[f]]

\* the optional members of an argument of addTransaction / addDeposit: the
\* id with the reference id, and the status
IdOptions == {EmptyData, [id |-> ExplicitId, reff_id |-> ExplicitRef]}
StatusOptions == {EmptyData, [status |-> "success"]}

\* the arguments of addTransaction explored
TransactionInputs ==
    {Merge(Merge([user_id |-> u, bank_code |-> <<"o", "v", "o">>, account_number |-> <<"6", "2">>,
                  account_name |-> <<"A", "r", "f", "i">>, nominal |-> a], i), s) :
        u \in Users, a \in JournalAmounts, i \in IdOptions, s \in StatusOptions}

\* the arguments of addDeposit explored
DepositInputs ==
    {Merge([user_id |-> OwnerId, method |-> "manual", nominal |-> a], s) :
        a \in JournalAmounts, s \in StatusOptions}

\* the keys passed to updateTransactionStatus / updateDepositStatus
UpdateKeys == {ExplicitId, ExplicitRef, uuidv4(1), UnknownKey}

\* save() entered while the lock is ignored: the caller goes on to write
writersAfter_ignoreLock(ws, locked, c) == ws \cup {c}

\* save(): with the lock taken the caller waits, otherwise it takes the lock
\* and goes on to the backup and the file write
writersAfter(ws, locked, c) == IF locked THEN ws ELSE ws \cup {c}

\* a createBackup() invocation suspended at an await: who called it, where
\* it is, the name of its snapshot, the files it has still to delete
BackupOp(by, pc, name, list) == [by |-> by, pc |-> pc, name |-> name, list |-> list]

\* createBackup() up to its first await: the snapshot is named by the time
\* and writeJson(backupFile) is called
createBackup(by) == backupOps \cup {BackupOp(by, "write", now, <<>>)}

\* this.save() as the call numbered c makes it, up to its first suspension:
\* behind a save in progress it queues its resolver, otherwise it takes the
\* lock and calls createBackup()
requestSave(c) ==
    /\ save
    /\ waiting' = IF lock THEN Append(waiting, c) ELSE waiting
    /\ writers' = writersAfter(writers, lock, c)
    /\ backupOps' = IF lock THEN backupOps ELSE createBackup("save")
    /\ UNCHANGED <<file, writing, backups, saved>>

\* a predicate that takes every record for the one looked up
matchesKey_any(rec, key) == TRUE

\* t.id === key || t.reff_id === key
matchesKey(rec, key) == rec.id = key \/ rec.reff_id = key

\* a lookup that returns the newest record with the key
findIndex_newest(records, key) ==
    IF \E i \in 1..Len(records) : matchesKey(records[i], key)
    THEN CHOOSE i \in 1..Len(records) :
            /\ matchesKey(records[i], key)
            /\ \A j \in (i + 1)..Len(records) : ~matchesKey(records[j], key)
    ELSE 0

\* records.find(...): the position of the first record the key matches, 0
\* when there is none
findIndex(records, key) ==
    IF \E i \in 1..Len(records) : matchesKey(records[i], key)
    THEN CHOOSE i \in 1..Len(records) :
            /\ matchesKey(records[i], key)
            /\ \A j \in 1..(i - 1) : ~matchesKey(records[j], key)
    ELSE 0

\* a count of every update to success
countsTransition_always(oldStatus, status) == status = "success"

\* oldStatus !== 'success' && status === 'success'
countsTransition(oldStatus, status) == oldStatus # "success" /\ status = "success"

\* the counters after the status of a record with the amount nominal changed
statsAfterUpdate(sys, counter, oldStatus, status, nominal) ==
    IF countsTransition(oldStatus, status)
    THEN [sys EXCEPT ![counter] = @ + 1, !.total_volume = @ + nominal]
    ELSE sys

\* the record after updateTransactionStatus / updateDepositStatus
withStatus(rec, status, t) == [rec EXCEPT !.status = status, !.updated_at = t]

\* the comparator of sort, with its sign turned round
newerFirst_oldestFirst(a, b) == a.created_at - b.created_at

\* (a, b) => new Date(b.created_at) - new Date(a.created_at)
newerFirst(a, b) == b.created_at - a.created_at

\* one step of the stable sort: x goes behind every element the comparator
\* does not put after it
RECURSIVE insertSorted(_, _)
insertSorted(sorted, x) ==
    IF sorted = <<>> THEN <<x>>
    ELSE IF newerFirst(Head(sorted), x) > 0
         THEN <<x>> \o sorted
         ELSE <<Head(sorted)>> \o insertSorted(Tail(sorted), x)

\* array.sort(newerFirst), which is stable
RECURSIVE sortRecords(_)
sortRecords(records) ==
    IF records = <<>> THEN <<>>
    ELSE insertSorted(sortRecords(SubSeq(records, 1, Len(records) - 1)), records[Len(records)])

\* array.slice(0, limit), limit >= 0
slice(records, limit) == SubSeq(records, 1, Min(limit, Len(records)))

\* getUserTransactions / getUserDeposits: filter, sort, slice
getUserRecords(records, userId, limit) ==
    slice(sortRecords(SelectSeq(records, LAMBDA r : r.user_id = userId)), limit)

fsVars == <<file, writing, backups, backupOps, saved>>

\* what a journal call leaves alone in the bot
botUntouched ==
    /\ UNCHANGED <<userStates, tasks, now, lastEvent, reply, prompts, providerCalls, users>>
    /\ UNCHANGED <<clientVars, boot, life>>

\* db.addTransaction(transaction)
callAddTransaction(transaction) ==
    LET tx == newTransaction(transaction, uuidv4(nextId), now) IN
    /\ jlast.n < MaxJournalCalls
    /\ transactions' = Append(transactions, tx)
    /\ system' = statsAfterAdd(system, "successful_transfers", tx.status, tx.nominal)
    /\ nextId' = IF "id" \in DOMAIN transaction THEN nextId ELSE nextId + 1
    /\ requestSave(jlast.n + 1)
    /\ jlast' = [n |-> jlast.n + 1, op |-> "addTransaction", arg |-> transaction, ret |-> tx]
    /\ UNCHANGED <<deposits, released>>
    /\ botUntouched

\* db.addDeposit(deposit)
callAddDeposit(deposit) ==
    LET dep == newDeposit(deposit, uuidv4(nextId), now) IN
    /\ jlast.n < MaxJournalCalls
    /\ deposits' = Append(deposits, dep)
    /\ system' = statsAfterAdd(system, "successful_deposits", dep.status, dep.nominal)
    /\ nextId' = IF "id" \in DOMAIN deposit THEN nextId ELSE nextId + 1
    /\ requestSave(jlast.n + 1)
    /\ jlast' = [n |-> jlast.n + 1, op |-> "addDeposit", arg |-> deposit, ret |-> dep]
    /\ UNCHANGED <<transactions, released>>
    /\ botUntouched

\* db.updateTransactionStatus(key, status)
callUpdateTransactionStatus(key, status) ==
    LET i == findIndex(transactions, key) IN
    /\ jlast.n < MaxJournalCalls
    /\ IF i # 0
       THEN /\ transactions' = [transactions EXCEPT ![i] = withStatus(@, status, now)]
            /\ system' = statsAfterUpdate(system, "successful_transfers",
                                          transactions[i].status, status, transactions[i].nominal)
            /\ requestSave(jlast.n + 1)
       ELSE UNCHANGED <<transactions, system, lock, saveQueue, waiting, writers, fsVars>>
    /\ jlast' = [n |-> jlast.n + 1, op |-> "updateTransactionStatus",
                 arg |-> [key |-> key, status |-> status], ret |-> (i # 0),
                 was |-> IF i # 0 THEN transactions[i].status ELSE "none"]
    /\ UNCHANGED <<deposits, nextId, released>>
    /\ botUntouched

\* db.updateDepositStatus(key, status)
callUpdateDepositStatus(key, status) ==
    LET i == findIndex(deposits, key) IN
    /\ jlast.n < MaxJournalCalls
    /\ IF i # 0
       THEN /\ deposits' = [deposits EXCEPT ![i] = withStatus(@, status, now)]
            /\ system' = statsAfterUpdate(system, "successful_deposits",
                                          deposits[i].status, status, deposits[i].nominal)
            /\ requestSave(jlast.n + 1)
       ELSE UNCHANGED <<deposits, system, lock, saveQueue, waiting, writers, fsVars>>
    /\ jlast' = [n |-> jlast.n + 1, op |-> "updateDepositStatus",
                 arg |-> [key |-> key, status |-> status], ret |-> (i # 0),
                 was |-> IF i # 0 THEN deposits[i].status ELSE "none"]
    /\ UNCHANGED <<transactions, nextId, released>>
    /\ botUntouched

\* db.getUserTransactions(userId, limit)
callGetUserTransactions(userId, limit) ==
    /\ jlast.n < MaxJournalCalls
    /\ jlast' = [n |-> jlast.n + 1, op |-> "getUserTransactions",
                 arg |-> [user_id |-> userId, limit |-> limit],
                 ret |-> getUserRecords(transactions, userId, limit)]
    /\ UNCHANGED <<transactions, deposits, system, nextId, lock, saveQueue,
                   waiting, writers, released, fsVars>>
    /\ botUntouched

\* db.getUserDeposits(userId, limit)
callGetUserDeposits(userId, limit) ==
    /\ jlast.n < MaxJournalCalls
    /\ jlast' = [n |-> jlast.n + 1, op |-> "getUserDeposits",
                 arg |-> [user_id |-> userId, limit |-> limit],
                 ret |-> getUserRecords(deposits, userId, limit)]
    /\ UNCHANGED <<transactions, deposits, system, nextId, lock, saveQueue,
                   waiting, writers, released, fsVars>>
    /\ botUntouched

\* the milliseconds of a day (setDate(getDate() - daysToKeep))
DayMillis == 86400000

\* the retention periods cleanupOldData is called with (the default of 30
\* days lies beyond the clock values explored)
DaysToKeep == {0, 1}

\* the records cleanupOldData counts as old:
\* created_at < cutoffDate && status === 'success'
oldRecords(records, cutoff) ==
    SelectSeq(records, LAMBDA r : r.created_at < cutoff /\ r.status = "success")

\* a cleanup that drops the records it counts
afterCleanup_dropOld(records, cutoff) ==
    SelectSeq(records, LAMBDA r : ~(r.created_at < cutoff /\ r.status = "success"))

\* cleanupOldData only logs what it counted: the arrays stay as they are
afterCleanup(records, cutoff) == records

\* db.cleanupOldData(daysToKeep) up to its await of save()
callCleanupOldData(daysToKeep) ==
    LET cutoff == now - daysToKeep * DayMillis IN
    /\ jlast.n < MaxJournalCalls
    /\ transactions' = afterCleanup(transactions, cutoff)
    /\ deposits' = afterCleanup(deposits, cutoff)
    /\ requestSave(jlast.n + 1)
    /\ jlast' = [n |-> jlast.n + 1, op |-> "cleanupOldData",
                 arg |-> [daysToKeep |-> daysToKeep],
                 ret |-> [old_transactions |-> Len(oldRecords(transactions, cutoff)),
                          old_deposits |-> Len(oldRecords(deposits, cutoff))],
                 was |-> "none"]
    /\ UNCHANGED <<users, system, nextId, released>>
    /\ botUntouched

NextJournal ==
    \/ Tick
    \/ \E transaction \in TransactionInputs : callAddTransaction(transaction)
    \/ \E deposit \in DepositInputs : callAddDeposit(deposit)
    \/ \E key \in UpdateKeys, status \in Statuses : callUpdateTransactionStatus(key, status)
    \/ \E key \in UpdateKeys, status \in Statuses : callUpdateDepositStatus(key, status)
    \/ \E u \in Users, limit \in 1..MaxLimit : callGetUserTransactions(u, limit)
    \/ \E u \in Users, limit \in 1..MaxLimit : callGetUserDeposits(u, limit)
    \/ \E daysToKeep \in DaysToKeep : callCleanupOldData(daysToKeep)

\* the loaded DatabaseManager with its methods called one after another,
\* while the save the first of them started is still in progress
SpecJournal == Init /\ [][NextJournal]_vars


(***************************************************************************)
(* DatabaseManager: save() and createBackup() with the files they write    *)
(***************************************************************************)
\* manual backups in progress at the same time
MaxManualBackups == 1

\* the argument of addTransaction and the status update explored with the files
PersistInputs ==
    {t \in TransactionInputs :
        t.user_id = OwnerId /\ t.nominal = 5000 /\ "id" \notin DOMAIN t /\ "status" \in DOMAIN t}

\* backupFiles.sort().reverse(): the names, newest first
RECURSIVE newestFirst(_)
newestFirst(names) ==
    IF names = {} THEN <<>>
    ELSE LET m == CHOOSE x \in names : \A y \in names : y <= x
         IN <<m>> \o newestFirst(names \ {m})

\* backupFiles.length > 7 ? backupFiles.slice(7) : nothing
filesToDelete(names) ==
    IF Cardinality(names) > KeepBackups
    THEN SubSeq(newestFirst(names), KeepBackups + 1, Cardinality(names))
    ELSE <<>>

\* a save() that reports success whatever the write did
saveReturn_always(ok) == TRUE

\* save(): return true at the end of the try block, return false in the catch block
saveReturn(ok) == ok

\* createBackup() returns to its caller (the snapshot's path, or null from
\* its catch block), having made its snapshot or not: save() goes on to
\* writeJson(dbPath, this.data), which serialises the data at once;
\* handleBackup goes on to report.  saved keeps, for every save() that got
\* this far, whether its snapshot was made and how its write ended.
backupReturns(op, made) ==
    /\ backupOps' = backupOps \ {op}
    /\ writing' = IF op.by = "save" THEN Content(users, transactions, deposits, system)
                  ELSE writing
    /\ saved' = IF op.by = "save" THEN Append(saved, [snapshot |-> made]) ELSE saved

\* a createBackup() invocation moves on to its next await
backupGoesOn(op, next) ==
    /\ backupOps' = (backupOps \ {op}) \cup {next}
    /\ UNCHANGED <<writing, saved>>

\* what a step of createBackup() or save() leaves alone
filesOnly ==
    /\ UNCHANGED <<userStates, tasks, now, lastEvent, reply, prompts, providerCalls>>
    /\ UNCHANGED <<transactions, deposits, users, system, nextId, jlast>>
    /\ UNCHANGED <<clientVars, boot, life>>

\* /backup: handleBackup: the owner check and the chat action, then
\* db.createBackup() up to its first await
handleBackup(userId, chatId) ==
    /\ IF isOwner(userId)
       THEN /\ Cardinality({op \in backupOps : op.by = "manual"}) < MaxManualBackups
            /\ backupOps' = createBackup("manual")
       ELSE UNCHANGED backupOps
    /\ lastEvent' = eventOf(userId)
    /\ reply' = replyOf(userId)
    /\ UNCHANGED <<userStates, tasks, now, prompts, providerCalls>>
    /\ UNCHANGED <<journalVars, jlast, waiting, writers, released>>
    /\ UNCHANGED <<file, writing, backups, saved>>
    /\ UNCHANGED <<clientVars, boot, life>>

\* createBackup(): writeJson(backupFile) has finished; written, readdir is
\* called; failed, the catch block returns null
backupWritten(op, ok) ==
    /\ op.pc = "write"
    /\ IF ok
       THEN /\ backups' = backups \cup {op.name}
            /\ backupGoesOn(op, [op EXCEPT !.pc = "readdir"])
       ELSE /\ UNCHANGED backups
            /\ backupReturns(op, FALSE)
    /\ UNCHANGED <<lock, saveQueue, waiting, writers, released, file>>
    /\ filesOnly

\* createBackup(): readdir has returned the names in the directory; with
\* more than KeepBackups of them the first unlink is called
backupListed(op) ==
    /\ op.pc = "readdir"
    /\ IF filesToDelete(backups) = <<>>
       THEN backupReturns(op, TRUE)
       ELSE backupGoesOn(op, [op EXCEPT !.pc = "unlink", !.list = filesToDelete(backups)])
    /\ UNCHANGED <<lock, saveQueue, waiting, writers, released, file, backups>>
    /\ filesOnly

\* createBackup(): an unlink has finished; of a file another invocation has
\* deleted in the meantime it fails and the catch block returns null
backupUnlinked(op) ==
    /\ op.pc = "unlink"
    /\ IF Head(op.list) \in backups
       THEN /\ backups' = backups \ {Head(op.list)}
            /\ IF Tail(op.list) = <<>>
               THEN backupReturns(op, TRUE)
               ELSE backupGoesOn(op, [op EXCEPT !.list = Tail(op.list)])
       ELSE /\ UNCHANGED backups
            /\ backupReturns(op, TRUE)
    /\ UNCHANGED <<lock, saveQueue, waiting, writers, released, file>>
    /\ filesOnly

\* save() of the call c: writeJson(dbPath) has finished, written or failed (a
\* failed write is taken to leave the file as it was); the finally block
\* releases the lock and resolves the first queued caller, which returns
\* without writing
saveDone(c, ok) ==
    /\ c \in writers
    /\ writing # NoContent
    /\ file' = IF ok THEN writing ELSE file
    /\ writing' = NoContent
    /\ saved' = [saved EXCEPT ![Len(saved)] =
                    [snapshot |-> @.snapshot, wrote |-> ok, ret |-> saveReturn(ok)]]
    /\ lock' = FALSE
    /\ writers' = writers \ {c}
    /\ IF waiting # <<>>
       THEN /\ waiting' = Tail(waiting)
            /\ released' = Append(released, Head(waiting))
            /\ saveQueue' = saveQueue - 1
       ELSE UNCHANGED <<waiting, released, saveQueue>>
    /\ UNCHANGED <<backups, backupOps>>
    /\ filesOnly

NextPersist ==
    \/ Tick
    \/ \E transaction \in PersistInputs : callAddTransaction(transaction)
    \/ callUpdateTransactionStatus(uuidv4(1), "failed")
    \/ \E u \in Users, c \in Chats : handleBackup(u, c)
    \/ \E op \in backupOps, ok \in BOOLEAN : backupWritten(op, ok)
    \/ \E op \in backupOps : backupListed(op)
    \/ \E op \in backupOps : backupUnlinked(op)
    \/ \E c \in writers, ok \in BOOLEAN : saveDone(c, ok)

\* the loaded DatabaseManager with its saves and backups running to their end
SpecPersist == Init /\ [][NextPersist]_vars
(***************************************************************************)
(* Claims about the bot                                                    *)
(***************************************************************************)

OwnerKey == KeyOf(OwnerId, 1)

\* C1: every provider createTransfer the bot starts is started by the handler
\* of a confirm_transfer callback of the owner, at the moment that handler
\* resumes with the payload of the callback; the handler of a wizard's final
\* amount step starts no provider call: it delivers the confirmation prompt.
C1_TransferOnlyOnConfirm ==
    [][ /\ \A i \in 1..Len(providerCalls') :
              providerCalls'[i].op = "createTransfer" =>
                 /\ providerCalls'[i].by = "callback:confirm_transfer"
                 /\ providerCalls'[i].user = OwnerId
        /\ ( /\ Len(providerCalls') > Len(providerCalls)
             /\ providerCalls'[Len(providerCalls')].op = "createTransfer" )
           => \E t \in BagToSet(tasks) :
                 /\ t.pc = "ct_pre" /\ t.user = OwnerId
                 /\ t.data.ref_id = providerCalls'[Len(providerCalls')].ref
                 /\ tasks' = (tasks (-) SetToBag({t})) (+) SetToBag({[t EXCEPT !.pc = "ct_call"]})
        /\ \A t \in BagToSet(tasks) :
              (t.pc = "wiz_confirm" /\ tasks' = tasks (-) SetToBag({t}))
              => /\ providerCalls' = providerCalls
                 /\ prompts' = prompts \cup {callbackData(t.data.wizard, t.data.data)} ]_vars

\* a transfer was started after the owner accepted a delivered confirmation
C1_Witness ==
    /\ \E i \in 1..Len(providerCalls) :
          /\ providerCalls[i].op = "createTransfer"
          /\ providerCalls[i].user = OwnerId
          /\ \E p \in prompts : p.prefix = "confirm_transfer:"
                                /\ parse(p.json).ref_id = providerCalls[i].ref

\* C2: the handling of an event of a sender who is not the owner changes no
\* session, suspends no handler, makes no provider call and changes no journal
\* record or counter; no suspended handler and no record belongs to such a
\* sender.
C2_GuestEventsChangeNothing ==
    [][ /\ lastEvent' = "guest" =>
              UNCHANGED <<userStates, tasks, prompts, providerCalls,
                          transactions, deposits, users, system, nextId, lock, saveQueue>>
        /\ \A t \in BagToSet(tasks') : t.user = OwnerId
        /\ \A k \in Keys : k # OwnerKey => userStates'[k] = NoSession
        /\ \A i \in 1..Len(providerCalls') : providerCalls'[i].user = OwnerId
        /\ \A i \in 1..Len(transactions') : transactions'[i].user_id = OwnerId
        /\ \A i \in 1..Len(deposits') : deposits'[i].user_id = OwnerId ]_vars

\* a non-owner's event was handled while the owner had a session and a
\* confirmation prompt was in the chat
C2_Witness ==
    /\ lastEvent = "guest"
    /\ userStates[OwnerKey] # NoSession
    /\ prompts # {}

\* the fields of a wizard's finalize result
FinalFields(kind) ==
    CASE kind = "check_account" -> {"bank_code", "account_number"}
      [] kind = "create_transfer" -> {"kode_bank", "nomor_akun", "nama_pemilik", "nominal", "ref_id"}
      [] OTHER -> {"nominal", "ref_id"}

\* C7: when the handler of a wizard's final step returns, its result holds
\* exactly the fields of the wizard's kind, with a reference id TRF-<digits>
\* or DEP-<digits> for transfer and deposit, and the conversation key, which
\* the final step left without a session, still has none.
C7_FinalizeLeavesNoSession ==
    [][\A t \in BagToSet(tasks) :
          ( /\ t.pc \in {"wiz_confirm", "wiz_check_call"}
            /\ tasks' = tasks (-) SetToBag({t})
            /\ userStates[KeyOf(t.user, t.chat)] = NoSession )
          => /\ DOMAIN t.data.data = FinalFields(t.data.wizard)
             /\ t.data.wizard # "check_account" =>
                   /\ t.data.data.ref_id.prefix = refPrefix(t.data.wizard)
                   /\ t.data.data.ref_id.digits \in Nat
             /\ userStates'[KeyOf(t.user, t.chat)] = NoSession ]_vars

\* the configured bounds of the amount a wizard asks for (the transfer
\* wizard's lower bound is the one its step 4 applies)
AmountInBounds(kind, amount) ==
    IF kind = "create_transfer" THEN amount >= MinTransfer /\ amount <= max_transfer
    ELSE amount >= min_deposit /\ amount <= max_deposit

\* C8: an amount reply outside the bounds of its wizard produces no
\* confirmation prompt: no prompt, delivered or being delivered, carries an
\* amount outside the bounds of its wizard.
C8_OutOfBoundsRejected ==
    /\ \A t \in BagToSet(tasks) :
          t.pc = "wiz_confirm" => AmountInBounds(t.data.wizard, t.data.data.nominal)
    /\ \A p \in prompts :
          AmountInBounds(IF p.prefix = "confirm_transfer:" THEN "create_transfer"
                         ELSE "create_deposit", parse(p.json).nominal)

\* C9: a trigger command of the owner leaves the conversation key with a
\* session of the triggered kind at step 1 with an empty field map, whatever
\* it held before, leaves every other key alone, and changes neither the
\* provider calls nor the journal.
C9_TriggerStartsFresh ==
    [][\A c \in Chats, cmd \in DOMAIN TriggerKind :
          handleTrigger(cmd, OwnerId, c) =>
             /\ userStates'[KeyOf(OwnerId, c)].wizard = TriggerKind[cmd]
             /\ userStates'[KeyOf(OwnerId, c)].step = 1
             /\ userStates'[KeyOf(OwnerId, c)].data = EmptyData
             /\ \A k \in Keys \ {KeyOf(OwnerId, c)} : userStates'[k] = userStates[k]
             /\ UNCHANGED <<tasks, prompts, providerCalls>>
             /\ UNCHANGED <<transactions, deposits, users, system, nextId, lock, saveQueue>> ]_vars

\* /checkaccount has just replaced a session while a handler of an earlier
\* step is still suspended
C9_Witness ==
    /\ userStates[OwnerKey].wizard = "check_account"
    /\ userStates[OwnerKey].step = 1
    /\ userStates[OwnerKey].data = EmptyData
    /\ \E t \in BagToSet(tasks) : t.pc = "wiz_send" /\ t.user = OwnerId

\* C10: a run of cleanupUserStates removes every session created more than
\* SessionTimeout before now and keeps the others.
C10_SweepRemovesOldSessions ==
    [][lastEvent' = "sweep" =>
          \A k \in Keys :
             userStates[k] # NoSession =>
                IF now - userStates[k].born > SessionTimeout
                THEN userStates'[k] = NoSession
                ELSE userStates'[k] = userStates[k] ]_vars

\* C11: the handling of the owner's cancel_action leaves the conversation key
\* without a session, whatever it held before.
C11_CancelRemovesSession ==
    [][\A c \in Chats :
          handleCallbackQuery(OwnerId, c, CancelAction) =>
             userStates'[KeyOf(OwnerId, c)] = NoSession ]_vars

\* C12: the handling of the owner's cancel_action for a key without a session,
\* the first as well as one that follows another cancel, changes no session,
\* no journal record, no counter and no save request, starts no provider call
\* and suspends no handler.
C12_CancelIdempotent ==
    [][\A c \in Chats :
          ( /\ handleCallbackQuery(OwnerId, c, CancelAction)
            /\ userStates[KeyOf(OwnerId, c)] = NoSession )
          => /\ lastEvent' = "cancel"
             /\ UNCHANGED <<userStates, tasks, prompts, providerCalls>>
             /\ UNCHANGED <<transactions, deposits, users, system, nextId, lock, saveQueue>> ]_vars

\* a cancel was handled while the key had no session, with a confirmation
\* prompt in the chat and a record in the journal
C12_Witness ==
    /\ lastEvent = "cancel"
    /\ userStates[OwnerKey] = NoSession
    /\ prompts # {}
    /\ Len(transactions) + Len(deposits) > 0

Called(ops) == jlast'.n # jlast.n /\ jlast'.op \in ops

\* no record of the journal carries the id
IdUnused(id) ==
    /\ \A i \in 1..Len(transactions) : transactions[i].id # id
    /\ \A i \in 1..Len(deposits) : deposits[i].id # id

\* C14: addTransaction / addDeposit appends exactly one record to its own
\* sequence, with the supplied id or else an id no record carries, with the
\* supplied status or else pending; it raises its success counter by 1 and
\* total_volume by the record's amount exactly when the stored status is
\* success, and it returns the stored record.
C14_AddAppendsOne ==
    [][Called({"addTransaction", "addDeposit"}) =>
          LET isTx == jlast'.op = "addTransaction"
              arg == jlast'.arg
              rec == jlast'.ret
              mine == IF isTx THEN "successful_transfers" ELSE "successful_deposits"
              other == IF isTx THEN "successful_deposits" ELSE "successful_transfers"
          IN /\ IF isTx THEN transactions' = Append(transactions, rec) /\ deposits' = deposits
                        ELSE deposits' = Append(deposits, rec) /\ transactions' = transactions
             /\ IF "id" \in DOMAIN arg THEN rec.id = arg.id ELSE IdUnused(rec.id)
             /\ rec.status = (IF "status" \in DOMAIN arg THEN arg.status ELSE "pending")
             /\ rec.nominal = arg.nominal /\ rec.user_id = arg.user_id
             /\ system'[other] = system[other]
             /\ IF rec.status = "success"
                THEN /\ system'[mine] = system[mine] + 1
                     /\ system'.total_volume = system.total_volume + rec.nominal
                ELSE system' = system ]_vars

\* a second transaction was added without id, with status success, after a
\* pending one
C14_Witness ==
    /\ jlast.op = "addTransaction"
    /\ "id" \notin DOMAIN jlast.arg
    /\ Len(transactions) = 2
    /\ transactions[1].status = "pending"
    /\ transactions[2] = jlast.ret
    /\ jlast.ret.status = "success"
    /\ jlast.ret.id # transactions[1].id
    /\ system.successful_transfers = 1
    /\ system.total_volume = jlast.ret.nominal

\* C15: addTransaction called again with the argument of the call before it,
\* which has an explicit id and the status success, leaves
\* successful_transfers and total_volume as they were.
C15_AddTwiceCountsOnce ==
    [][( /\ Called({"addTransaction"})
         /\ jlast.op = "addTransaction"
         /\ jlast'.arg = jlast.arg
         /\ "id" \in DOMAIN jlast'.arg
         /\ jlast'.ret.status = "success" )
       => /\ system'.successful_transfers = system.successful_transfers
          /\ system'.total_volume = system.total_volume ]_vars

\* the position of the first record with the key as id or reference id, 0
\* when no record has it
FirstWithKey(records, key) ==
    LET hits == {i \in 1..Len(records) : records[i].id = key \/ records[i].reff_id = key}
    IN IF hits = {} THEN 0 ELSE CHOOSE i \in hits : \A j \in hits : i <= j

\* C16: a status update that finds its record and moves it from pending to
\* success raises the counter of its kind by exactly 1 and total_volume by
\* exactly the record's amount; success applied to a record already in
\* success changes no counter; the counter of the other kind never changes.
C16_UpdateCountsTransition ==
    [][Called({"updateTransactionStatus", "updateDepositStatus"}) =>
          LET isTx == jlast'.op = "updateTransactionStatus"
              records == IF isTx THEN transactions ELSE deposits
              mine == IF isTx THEN "successful_transfers" ELSE "successful_deposits"
              other == IF isTx THEN "successful_deposits" ELSE "successful_transfers"
              i == FirstWithKey(records, jlast'.arg.key)
          IN /\ system'[other] = system[other]
             /\ (i # 0 /\ records[i].status = "pending" /\ jlast'.arg.status = "success")
                => /\ system'[mine] = system[mine] + 1
                   /\ system'.total_volume = system.total_volume + records[i].nominal
             /\ (i # 0 /\ records[i].status = "success" /\ jlast'.arg.status = "success")
                => system' = system ]_vars

\* success was applied to a transaction already moved from pending to success
C16_Witness ==
    /\ jlast.n = 3
    /\ jlast.op = "updateTransactionStatus"
    /\ jlast.arg.status = "success"
    /\ jlast.ret
    /\ jlast.was = "success"
    /\ Len(transactions) = 1
    /\ transactions[1].id = uuidv4(1)
    /\ transactions[1].status = "success"
    /\ system.successful_transfers = 1
    /\ system.total_volume = transactions[1].nominal

\* C17: a status update whose key is neither the id nor the reference id of a
\* record of its kind returns false and changes no record, no counter, and
\* neither the lock nor the save queue.
C17_UpdateUnknownKey ==
    [][Called({"updateTransactionStatus", "updateDepositStatus"}) =>
          LET records == IF jlast'.op = "updateTransactionStatus" THEN transactions ELSE deposits
          IN FirstWithKey(records, jlast'.arg.key) = 0
             => /\ jlast'.ret = FALSE
                /\ UNCHANGED <<transactions, deposits, system, nextId>>
                /\ UNCHANGED <<lock, saveQueue, waiting, writers, released>> ]_vars

\* an update with a key of no record was refused while the journal held
\* records and a save was under way
C17_Witness ==
    /\ jlast.op = "updateTransactionStatus"
    /\ jlast.arg.key = UnknownKey
    /\ jlast.ret = FALSE
    /\ Len(transactions) = 2
    /\ lock
    /\ Len(waiting) = 1

\* C18: getUserTransactions / getUserDeposits returns records of the user
\* only, newest first, min(limit, number of the user's records) of them, none
\* older than a record of the user it leaves out, and leaves the stored
\* sequences as they are.
C18_UserRecordsNewestFirst ==
    [][Called({"getUserTransactions", "getUserDeposits"}) =>
          LET records == IF jlast'.op = "getUserTransactions" THEN transactions ELSE deposits
              u == jlast'.arg.user_id
              ret == jlast'.ret
              mine == {i \in 1..Len(records) : records[i].user_id = u}
              returned == {ret[k] : k \in 1..Len(ret)}
          IN /\ Len(ret) = Min(jlast'.arg.limit, Cardinality(mine))
             /\ \A k \in 1..Len(ret) :
                   ret[k].user_id = u /\ \E i \in mine : records[i] = ret[k]
             /\ \A k \in 1..(Len(ret) - 1) : ret[k].created_at >= ret[k + 1].created_at
             /\ \A i \in mine :
                   records[i] \notin returned
                   => \A k \in 1..Len(ret) : ret[k].created_at >= records[i].created_at
             /\ UNCHANGED <<transactions, deposits, system>> ]_vars

\* with two transactions of the owner created at different times, limit 1
\* returned the newer one
C18_Witness ==
    /\ jlast.op = "getUserTransactions"
    /\ jlast.arg = [user_id |-> OwnerId, limit |-> 1]
    /\ Len(transactions) = 2
    /\ transactions[1].user_id = OwnerId
    /\ transactions[2].user_id = OwnerId
    /\ transactions[1].created_at < transactions[2].created_at
    /\ jlast.ret = <<transactions[2]>>

\* C19: at most one save() is between taking the lock and its finally block,
\* it holds the lock, and no save() that was queued is among the writers.
C19_OneWriter ==
    /\ Cardinality(writers) <= 1
    /\ writers # {} => lock
    /\ \A i \in 1..Len(waiting) : waiting[i] \notin writers
    /\ \A i \in 1..Len(released) : released[i] \notin writers

\* two save() calls were queued behind a write in progress
C19_Witness ==
    /\ Cardinality(writers) = 1
    /\ lock
    /\ Len(waiting) = 2

\* C20: when the write in progress completes, every save() call queued
\* behind it is released, the oldest first.
C20_QueuedSavesReleased ==
    [][(lock /\ ~lock') =>
          /\ waiting' = <<>>
          /\ released' = released \o waiting ]_vars

\* the records of a sequence that are in status success
Successful(records) == SelectSeq(records, LAMBDA r : r.status = "success")

\* the sum of the amounts of a sequence of records
RECURSIVE Volume(_)
Volume(records) ==
    IF records = <<>> THEN 0 ELSE records[1].nominal + Volume(Tail(records))

\* C25: in every state reached by adding records and updating statuses,
\* successful_transfers is the number of transactions in status success,
\* successful_deposits the number of deposits in status success, and
\* total_volume the sum of the amounts of those records.
C25_CountersMatchRecords ==
    /\ system.successful_transfers = Len(Successful(transactions))
    /\ system.successful_deposits = Len(Successful(deposits))
    /\ system.total_volume = Volume(Successful(transactions)) + Volume(Successful(deposits))

\* C26: when createTransfer returns success to the handler of an accepted
\* confirmation, exactly one transaction is appended in that same step; its
\* reference id is the one of the confirmation payload and of the provider
\* call the handler made, its amount, bank code and account number are the
\* payload's.  When createTransfer returns a failure, records and counters stay
\* as they are.  No other step appends a transaction.
C26_TransferRecordedOnSuccess ==
    [][ /\ \A t \in BagToSet(tasks), status \in ProviderStatuses :
              confirmTransferResult(t, TRUE, status) =>
                 /\ Len(transactions') = Len(transactions) + 1
                 /\ SubSeq(transactions', 1, Len(transactions)) = transactions
                 /\ \E p \in prompts : p.prefix = "confirm_transfer:" /\ parse(p.json) = t.data
                 /\ LET rec == Last(transactions') IN
                      /\ rec.reff_id = t.data.ref_id
                      /\ \E i \in 1..Len(providerCalls) :
                            /\ providerCalls[i].op = "createTransfer"
                            /\ providerCalls[i].ref = rec.reff_id
                      /\ rec.nominal = t.data.nominal
                      /\ rec.bank_code = t.data.kode_bank
                      /\ rec.account_number = t.data.nomor_akun
                      /\ rec.user_id = t.user
        /\ \A t \in BagToSet(tasks) :
              confirmTransferResult(t, FALSE, "") =>
                 UNCHANGED <<transactions, deposits, system>>
        /\ transactions' # transactions =>
              \E t \in BagToSet(tasks), status \in ProviderStatuses :
                 confirmTransferResult(t, TRUE, status) ]_vars

\* the provider accepted the transfer and its record is in the journal
C26_Witness ==
    /\ Len(providerCalls) = 1
    /\ providerCalls[1].op = "createTransfer"
    /\ Len(transactions) = 1
    /\ transactions[1].reff_id = providerCalls[1].ref
    /\ transactions[1].status = "success"
    /\ transactions[1].nominal = 1000
    /\ tasks = EmptyBag

\* the fields a create_transfer session holds when it waits for the reply to
\* its step
TransferFieldsBefore(step) ==
    {<<"kode_bank", "nomor_akun", "nama_pemilik">>[i] : i \in 1..(step - 1)}

\* C29: a free-text reply that reaches a create_transfer session at one of
\* the steps 1 to 3 moves the session to the next step and stores the reply
\* in the field of its step within the same step of the event loop, whatever
\* handlers are suspended; the fields stored before are kept, and a session
\* at a step holds exactly the fields of the steps before it.
C29_RepliesConsumedInOrder ==
    [][\A k \in Keys :
          LET s == userStates[k]
              s2 == userStates'[k]
          IN /\ (s2 # NoSession /\ s2.wizard = "create_transfer")
                   => DOMAIN s2.data = TransferFieldsBefore(s2.step)
             /\ \A text \in Texts :
                   ( /\ s # NoSession
                     /\ s.wizard = "create_transfer"
                     /\ s.step \in 1..3
                     /\ onMessage(k[1], k[2], text) )
                   => /\ s2 # NoSession
                      /\ s2.step = s.step + 1
                      /\ \A f \in DOMAIN s.data : s2.data[f] = s.data[f]
                      /\ s.step = 1 => s2.data.kode_bank = trim(toLowerCase(text))
                      /\ s.step = 2 => s2.data.nomor_akun = trim(text)
                      /\ s.step = 3 => s2.data.nama_pemilik = trim(text) ]_vars

\* two replies were consumed while the handlers of both are still suspended
\* on sending their prompts
C29_Witness ==
    /\ userStates[OwnerKey] # NoSession
    /\ userStates[OwnerKey].wizard = "create_transfer"
    /\ userStates[OwnerKey].step = 3
    /\ userStates[OwnerKey].data = [kode_bank |-> <<"o", "v", "o">>, nomor_akun |-> <<"6", "2">>]
    /\ BagCardinality(tasks) = 2
    /\ \A t \in BagToSet(tasks) : t.pc = "wiz_send" /\ t.user = OwnerId

\* C30: when the catch block of handleWizardStep finishes for a key whose
\* session is a check_account or create_transfer session still at step 1 (a
\* session no reply has reached yet, so the failed step belonged to an
\* earlier session of the key), the key still has a session afterwards.
C30_NewSessionSurvivesOldFailure ==
    [][\A t \in BagToSet(tasks) :
          LET key == KeyOf(t.user, t.chat) IN
          ( /\ t.pc = "wiz_err"
            /\ tasks' = Finish(t)
            /\ userStates[key] # NoSession
            /\ userStates[key].wizard \in {"check_account", "create_transfer"}
            /\ userStates[key].step = 1 )
          => userStates'[key] # NoSession ]_vars

\* C28: no two createTransfer operations the bot starts carry the same
\* reference id, and no two transaction records do.
C28_OneTransferPerReference ==
    /\ \A i, j \in 1..Len(providerCalls) :
          ( /\ providerCalls[i].op = "createTransfer"
            /\ providerCalls[j].op = "createTransfer"
            /\ providerCalls[i].ref = providerCalls[j].ref ) => i = j
    /\ \A i, j \in 1..Len(transactions) :
          transactions[i].reff_id = transactions[j].reff_id => i = j

\* C24: the handler of every command, run for a sender who is not the owner,
\* sends the owner-only message and nothing else.
C24_CommandsDenyGuests ==
    [][\A u \in Users \ {OwnerId}, c \in Chats :
          ( \/ \E cmd \in DOMAIN TriggerKind : handleTrigger(cmd, u, c)
            \/ handleStart(u, c)
            \/ handleBankList(u, c)
            \/ handleHelp(u, c)
            \/ \E cmd \in ReportCommands : handleReport(cmd, u, c) )
          => reply' = "denial" ]_vars

\* C23: while a required value of the environment is missing, initialize()
\* has not initialized the database, saved, created the API client, tested
\* the connection or registered a listener, and once it has returned it has
\* returned false.
C23_MissingConfigStopsStartup ==
    ("env" \in DOMAIN boot /\ \E n \in RequiredNames : boot.env[n] # "set")
    => /\ boot.pc \in {"new", "done"}
       /\ ~boot.dbInitialized
       /\ boot.saves = 0
       /\ boot.client = "none"
       /\ ~boot.tested
       /\ boot.handlers = {}
       /\ boot.pc = "done" => boot.ret = "false"

\* initialize() has returned with the token and the owner id set and the API
\* key set to the empty string
C23_Witness ==
    /\ "env" \in DOMAIN boot
    /\ boot.env["TELEGRAM_BOT_TOKEN"] = "set"
    /\ boot.env["OWNER_TELEGRAM_ID"] = "set"
    /\ boot.env["ATLANTIC_API_KEY"] = "empty"
    /\ boot.pc = "done"
    /\ boot.ret = "false"


\* the saves whose write of the database file has ended
Ended(saves) == SelectSeq(saves, LAMBDA s : "wrote" \in DOMAIN s)

\* C21: when the write of the database file inside save() fails, save()
\* returns false, the records and counters in memory and the file stay as
\* they were, and the lock is released with no writer left, so that a later
\* save() runs.
C21_FailedWriteReportsFailure ==
    [][ \A c \in writers :
           saveDone(c, FALSE) =>
              /\ Last(saved').ret = FALSE
              /\ UNCHANGED <<users, transactions, deposits, system, file>>
              /\ ~lock'
              /\ writers' = {} ]_vars

\* a save failed and reported it, and the next one wrote the file
C21_Witness ==
    /\ Len(saved) = 2
    /\ Ended(saved) = saved
    /\ ~saved[1].wrote /\ ~saved[1].ret
    /\ saved[2].wrote /\ saved[2].ret
    /\ ~lock
    /\ transactions # <<>>
    /\ file.transactions = transactions

\* C22: every write of the database file follows the creation of a snapshot
\* by the same save(); with no backup in progress the directory holds at most
\* KeepBackups snapshots; pruning never deletes one of the KeepBackups newest
\* snapshots of the directory; also with a manual backup running beside a
\* save.
C22_SnapshotBeforeEveryWrite ==
    [][ /\ (writing = NoContent /\ writing' # NoContent) => Last(saved').snapshot
        /\ backupOps' = {} => Cardinality(backups') <= KeepBackups
        /\ \A f \in backups \ backups' :
              Cardinality({g \in backups : g > f}) >= KeepBackups ]_vars

C31_ReplyFeedsWizardOnly ==
    [][ \A t \in BagToSet(tasks) :
           (t.pc \in {"wiz_send", "wiz_reject", "wiz_confirm", "wiz_check_call"}
            /\ wizardStepDone(t)) =>
              \A k \in Keys : userStates'[k] \in {userStates[k], NoSession} ]_vars

\* C32: start() calls bot.startPolling() only while the bot does not poll and
\* no other start() awaits its startPolling(), also when several restarts
\* scheduled by fatal polling errors interleave.
C32_NoOverlappingStart ==
    [][ life'.starting > life.starting => (life.starting = 0 /\ ~life.polling) ]_vars

\* the wizard kinds
WizardKinds == {"check_account", "create_transfer", "create_deposit"}

\* the fields of the steps a session at the given step has completed
FieldsBefore(kind, step) == {stepField(kind, i) : i \in 1..(step - 1)}

\* a stored session is well formed
SessionOk(s) ==
    /\ s.wizard \in WizardKinds
    /\ s.step \in 1..lastStep(s.wizard)
    /\ DOMAIN s.data = FieldsBefore(s.wizard, s.step)

\* C33: every stored session has one of the three kinds, a step within the
\* range of its kind and exactly the fields of the steps before it; a stored
\* session changes only by being replaced with a new session at step 1, by
\* being deleted, or by one accepted reply, which raises its step by 1 and
\* keeps the fields it had.
C33_SessionsWellFormed ==
    [][ \A k \in Keys :
           LET s == userStates[k]
               n == userStates'[k]
           IN /\ s # NoSession => SessionOk(s)
              /\ n # NoSession => SessionOk(n)
              /\ (s # NoSession /\ n # NoSession /\ n # s) =>
                    \/ n = NewSession(n.wizard, now)
                    \/ /\ n.wizard = s.wizard
                       /\ n.born = s.born
                       /\ n.step = s.step + 1
                       /\ \A f \in DOMAIN s.data : n.data[f] = s.data[f] ]_vars

\* a create_transfer session has taken three replies and waits for the amount,
\* a later clock tick behind it
C33_Witness ==
    /\ userStates[OwnerKey].wizard = "create_transfer"
    /\ userStates[OwnerKey].step = 4
    /\ DOMAIN userStates[OwnerKey].data = {"kode_bank", "nomor_akun", "nama_pemilik"}
    /\ now > userStates[OwnerKey].born

\* C34: the delay waited before the i-th retry of a call is
\* min(BackoffBase * 2^i, BackoffCap), that is 2000, 4000, 8000, 10000 ms;
\* the delays of one call never decrease and never exceed the cap; the
\* retries made are as many as the delays and never more than maxRetries.
C34_BackoffDelays ==
    /\ \A i \in 1..Len(delays) :
          /\ delays[i] = Min(BackoffBase * Pow2(i), BackoffCap)
          /\ delays[i] = <<2000, 4000, 8000, 10000>>[Min(i, 4)]
          /\ delays[i] <= BackoffCap
          /\ i > 1 => delays[i - 1] <= delays[i]
    /\ Len(delays) = retryCount
    /\ retryCount <= maxRetries
    /\ requests <= retryCount + 1

\* a call retried four times: the fourth delay is the cap
C34_Witness ==
    /\ cpc = "done"
    /\ maxRetries = 4
    /\ delays = <<2000, 4000, 8000, 10000>>
    /\ requests = 5

\* an HTTP 2xx response whose body carries a false status flag
ProviderFlagFalse(o) == o.t = "ok" /\ o.body = "json" /\ ~o.flag

C36_UpdateChangesFirstMatchOnly ==
    [][Called({"updateTransactionStatus"}) =>
          LET i == FirstWithKey(transactions, jlast'.arg.key)
          IN /\ Len(transactions') = Len(transactions)
             /\ deposits' = deposits
             /\ \A j \in 1..Len(transactions) : j # i => transactions'[j] = transactions[j]
             /\ i # 0 =>
                   /\ transactions'[i].status = jlast'.arg.status
                   /\ transactions'[i].updated_at = now
                   /\ DOMAIN transactions'[i] = DOMAIN transactions[i]
                   /\ \A f \in DOMAIN transactions[i] \ {"status", "updated_at", "metadata"} :
                         transactions'[i][f] = transactions[i][f] ]_vars

\* two transactions share a reference id; an update by that reference id
\* changed the first and left the second
C36_Witness ==
    /\ jlast.op = "updateTransactionStatus"
    /\ jlast.arg.status = "failed"
    /\ jlast.ret
    /\ Len(transactions) = 2
    /\ transactions[1].reff_id = jlast.arg.key
    /\ transactions[2].reff_id = jlast.arg.key
    /\ transactions[1].status = "failed"
    /\ transactions[2].status # "failed"

\* the fields of a record that identify it
Identity(rec) == <<rec.id, rec.reff_id, rec.user_id, rec.nominal>>

\* the second sequence holds the records of the first at their positions,
\* with their identifying fields
GrowsFrom(records, after) ==
    /\ Len(after) >= Len(records)
    /\ \A i \in 1..Len(records) : Identity(after[i]) = Identity(records[i])

\* C37: no step of addTransaction, addDeposit, the status updates,
\* cleanupOldData or save removes or reorders a record: the sequences of
\* transactions and deposits only grow at the end, and a record keeps its id,
\* reference id, owner and amount.
C37_RecordsAppendOnly ==
    [][GrowsFrom(transactions, transactions') /\ GrowsFrom(deposits, deposits')]_vars

\* cleanupOldData counted a successful transaction as old and left it in place
C37_Witness ==
    /\ jlast.op = "cleanupOldData"
    /\ jlast.ret.old_transactions = 1
    /\ Len(transactions) = 1
    /\ transactions[1].status = "success"
    /\ transactions[1].created_at < now

\* C38: when the handler of an accepted deposit confirmation stores the
\* deposit, exactly one deposit is appended in that step, for the owner, in
\* status pending, with the amount and the reference id of the confirmation
\* payload and total = amount + fee; no provider call is made and no counter
\* and no transaction changes.  No other step appends a deposit.
C38_DepositRecordedPending ==
    [][ /\ \A t \in BagToSet(tasks) :
              (t.pc = "cd_pre" /\ confirmDepositStore(t)) =>
                 /\ Len(deposits') = Len(deposits) + 1
                 /\ SubSeq(deposits', 1, Len(deposits)) = deposits
                 /\ \E p \in prompts : p.prefix = "confirm_deposit:" /\ parse(p.json) = t.data
                 /\ LET rec == Last(deposits') IN
                      /\ rec.status = "pending"
                      /\ rec.nominal = t.data.nominal
                      /\ rec.reff_id = t.data.ref_id
                      /\ rec.fee = Fee(rec.nominal)
                      /\ rec.total = rec.nominal + rec.fee
                      /\ rec.user_id = OwnerId
                 /\ UNCHANGED <<providerCalls, system, transactions>>
        /\ deposits' # deposits =>
              \E t \in BagToSet(tasks) : t.pc = "cd_pre" /\ confirmDepositStore(t) ]_vars

\* the owner's deposit was accepted and stored as pending, with no provider
\* call and no counter raised
C38_Witness ==
    /\ Len(deposits) = 1
    /\ deposits[1].status = "pending"
    /\ deposits[1].reff_id.prefix = "DEP"
    /\ deposits[1].nominal >= min_deposit
    /\ deposits[1].total = deposits[1].nominal + deposits[1].fee
    /\ deposits[1].fee > 0
    /\ providerCalls = <<>>
    /\ system.successful_deposits = 0
    /\ system.total_volume = 0
    /\ tasks = EmptyBag

\* C39: in the standalone bot a callback query of a user who is not the
\* owner is not processed: its step starts no provider call and no handler,
\* and no transaction is appended for a query that user sent.
C39_StandaloneCallbackOwnerOnly ==
    [][ /\ \A c \in Chats, data \in prompts \cup {CancelTransfer, CheckStatusData} :
              standaloneCallback("guest", c, data) =>
                 UNCHANGED <<providerCalls, tasks, transactions>>
        /\ \A t \in BagToSet(tasks) :
              (t.pc = "sa_transfer" /\ transactions' # transactions) => t.user = OwnerId ]_vars

\* C40: in the standalone create_transfer chain the amount kept for the
\* transfer, and the amount of every confirmation prompt, is an integer from
\* min_transfer to max_transfer.
C40_StandaloneAmountValidated ==
    /\ \A k \in Keys :
          (userStates[k] # NoSession /\ "nominal" \in DOMAIN userStates[k].data) =>
             userStates[k].data.nominal \in min_transfer..max_transfer
    /\ \A p \in prompts :
          p.prefix = "confirm_transfer_" => p.json.nominal \in min_transfer..max_transfer
====
